---- MODULE Spec2Model ----
(***************************************************************************)
(* State-machine model of the CodeKnife object/event kernel:               *)
(*   - MetaObject lookups            (src/src/cobject/meta_object.cpp)     *)
(*   - ConnectionManager             (src/src/connection_manager.cpp)      *)
(*   - CObject lifetime and metacall (src/src/cobject/cobject.cpp)         *)
(*   - CApplication event queue/pump (src/src/cobject/capplication.cpp)    *)
(***************************************************************************)
EXTENDS Integers, Sequences, FiniteSets, TLC

VARIABLES
    alive,        \* [Objects -> BOOLEAN]: the object has not been deleted
    parent,       \* CObject::parent_
    children,     \* CObject::children_
    connections,  \* ConnectionManager::connections_ (sender -> vector<Connection>)
    em,           \* the running ConnectionManager::emitSignal call, if any
    log,          \* slots executed inside the running emitSignal call, in order
    cn,           \* per thread: a ConnectionManager::connect call between validation and lock
    ret,          \* per thread: return statement and value of its last connect call
                  \* (raced: another thread inserted the same four-tuple meanwhile)
    fault,        \* "none", or the undefined behaviour the process has run into
    owner,        \* CObject::thread_id_: the thread that constructed the object
    eventQueue,   \* CApplication::eventQueue_
    app,          \* CApplication::exec: the thread inside it and its position
    events,       \* processPostedEvents: the swapped-out batch still to dispatch
    mc,           \* per thread: its CObject::metacall blocked in future.wait()
    promise,      \* per thread: shared state of the promise its metacall made
    lastRun,      \* the last slot run outside emitSignal: receiver, thread, caller
    evs,          \* every Event allocated so far, by allocation number: receiver it
                  \* was posted to, posting thread, type, number of times deleted
    dlog,         \* allocation numbers of the events handed to sendEvent, in order
    dtrace,       \* steps of the last delete expression, in execution order
    nextTimerId,  \* static std::atomic<int> nextTimerId of CObject::startTimer
    timerList,    \* the dispatcher's timer records
    tret,         \* per thread: its startTimer call in progress (seen = how
                  \* many ids had been returned when it took its own) and the
                  \* return value of its last finished one
    issued,       \* the ids returned by startTimer so far, in order of return
    props,        \* per object: the values of its declared properties and its
                  \* dynamic_properties_ map
    pret,         \* outcome of the last setProperty / property call
    now,          \* getCurrentTime(): the steady clock, in milliseconds
    tlog,         \* the TimerEvents handed to sendEvent: id, receiver, time
    stalled,      \* the clock has moved on while a timer was due and unserved
    dret,         \* the last disconnect call: its arguments, the table before,
                  \* its return value
    inv,          \* the last call of an invoker made by make_invoker
    exc,          \* the exception that left the last emitSignal or exec call
    pcall,        \* the last recorded postEvent call: its arguments, the queue
                  \* on entry and on return
    metaMap,      \* MetaRegistry::metaMap_
    regs,         \* the descriptors stored by registerMeta, in lock order
    fret,         \* the last findMeta call: name, result, registrations before it
    walk,         \* processEvents: position of the loop over timerList, the end
                  \* it took at the start, and what lies in the storage the
                  \* loop's iterators point into; the ids marked fired when
                  \* the loop began, the deliveries made before it, and the
                  \* timers whose handler changed the list
    kills,        \* the killTimer calls that returned: id, deliveries made before,
                  \* timer list on entry and on return
    rcall,        \* the last recorded removePostedEvents call: its arguments,
                  \* the events allocated and delivered before it, the queue
                  \* on entry and on return
    tp,           \* a ThreadPool: stop, tasks (their number), the holder of
                  \* queue_mutex, each worker's position, the position of the
                  \* thread that owns the pool, the tasks run so far
    op,           \* an ObjectPool: growth_policy_, growth_size_, objects_,
                  \* active_count_, the objects made so far and who holds which
    oret,         \* the last ObjectPool::acquire call: its outcome and the
                  \* objects held when it ran
    ipc           \* one side of an IPC channel: running_, send_queue_, the
                  \* sender thread's position, the ring buffer it writes to,
                  \* and the order in which messages were written

evVars == <<owner, eventQueue, app, events, mc, promise, lastRun>>

postVars == <<evs, dlog>>

timerVars == <<nextTimerId, timerList, tret, issued>>

propVars == <<props, pret>>

clockVars == <<now, tlog, stalled>>

regVars == <<metaMap, regs, fret>>

walkVars == <<walk, kills>>

remVars == <<rcall>>

tpVars == <<tp>>

opVars == <<op, oret>>

ipcVars == <<ipc>>

libVars == <<regVars, walkVars, remVars, tpVars, opVars, ipcVars>>

exceptReg == <<walkVars, remVars, tpVars, opVars, ipcVars>>

exceptWalk == <<regVars, remVars, tpVars, opVars, ipcVars>>

exceptRem == <<regVars, walkVars, tpVars, opVars, ipcVars>>

exceptTp == <<regVars, walkVars, remVars, opVars, ipcVars>>

exceptOp == <<regVars, walkVars, remVars, tpVars, ipcVars>>

exceptIpc == <<regVars, walkVars, remVars, tpVars, opVars>>

callVars == <<dret, inv, exc, pcall, libVars>>

coreVars == <<alive, parent, children, connections, em, log, cn, ret, fault,
              owner, eventQueue, app, events, mc, promise, lastRun,
              evs, dlog, dtrace, nextTimerId, timerList, tret, issued, props, pret,
              now, tlog, stalled, dret, inv, exc, pcall>>

auxVars == <<postVars, dtrace, timerVars, propVars, clockVars, callVars>>

vars == <<alive, parent, children, connections, em, log, cn, ret, fault,
          owner, eventQueue, app, events, mc, promise, lastRun,
          evs, dlog, dtrace, nextTimerId, timerList, tret, issued, props, pret,
          now, tlog, stalled, dret, inv, exc, pcall,
          metaMap, regs, fret, walk, kills, rcall, tp, op, oret, ipc>>

----------------------------------------------------------------------------
(* Bounds *)

\* Largest number of connections held in the table at once.
MaxConns == 2

\* Largest number of Event objects allocated in one behaviour.
MaxEvents == 3

\* Largest number of timer ids taken from the counter in one behaviour.
MaxTimers == 3

\* Last value of the clock, in milliseconds since the start.
MaxTime == 3

\* Largest number of TimerEvents delivered in one behaviour.
MaxFires == 3

\* Largest initial_size and growth_size an ObjectPool is constructed with, and
\* the largest number of objects one pool makes.
MaxInitial == 2
MaxGrowth == 2
MaxObjects == 4

\* Largest number of messages handed to IPCImplement::sendMessage, the largest
\* packet, and the size of one direction's ring buffer (SHM_BUFFER_SIZE, 1 MB
\* in the source), both in the same unit.
MaxMsgs == 3
MaxPacket == 2
ShmBufferSize == 4

\* Largest number of tasks handed to ThreadPool::enqueue.
MaxTasks == 2

\* Largest number of killTimer calls recorded.
MaxKills == 2

\* INT_MAX and INT_MIN of the int behind std::atomic<int> nextTimerId.
IntMax == 2147483647
IntMin == -IntMax - 1

\* Largest number of events waiting in the posted-event queue.
MaxQueue == 2

----------------------------------------------------------------------------
(* Universe: pointers, names, threads *)

Objects == {"o1", "o2", "o3"}
NullObj == "nullptr"
Threads == {"t1", "t2"}
NullStr == "NULL"
\* The empty string "", a non-null const char*.
EmptyStr == ""

kAutoConnection == "kAutoConnection"
kDirectConnection == "kDirectConnection"
kQueuedConnection == "kQueuedConnection"
kBlockingConnection == "kBlockingConnection"
ConnectionType ==
    {kAutoConnection, kDirectConnection, kQueuedConnection, kBlockingConnection}

\* Class descriptors.  "CObject" is the root descriptor; "Emitter" declares two
\* signals; "Handler" derives from "Emitter" and declares one slot, so that a
\* Handler finds its signals only through the parent link.
NoMeta == "nometa"

MetaParent(c) ==
    CASE c = "CObject" -> NoMeta
      [] c = "Emitter" -> "CObject"
      [] c = "Handler" -> "Emitter"

MetaSignals(c) ==
    CASE c = "Emitter" -> {"changed", "reset"}
      [] OTHER -> {}

MetaMethods(c) ==
    CASE c = "Handler" -> {"onChanged"}
      [] OTHER -> {}

\* CObject::metaObject(): the descriptor of the object's dynamic class.
metaObject(o) ==
    CASE o = "o1" -> "Emitter"
      [] o = "o2" -> "Handler"
      [] o = "o3" -> "Handler"

\* MetaObject::findSignal: search the own vector, then recurse into the parent.
RECURSIVE findSignalFrom(_, _)
findSignalFrom(c, name) ==
    IF name \in MetaSignals(c) THEN TRUE
    ELSE IF MetaParent(c) # NoMeta THEN findSignalFrom(MetaParent(c), name)
    ELSE FALSE

findSignal(c, name) == findSignalFrom(c, name)

\* MetaObject::findMethod: search the own vector, then recurse into the parent.
RECURSIVE findMethodFrom(_, _)
findMethodFrom(c, name) ==
    IF name \in MetaMethods(c) THEN TRUE
    ELSE IF MetaParent(c) # NoMeta THEN findMethodFrom(MetaParent(c), name)
    ELSE FALSE

findMethod(c, name) == findMethodFrom(c, name)

\* Declared properties, as <<name, type name>>.  "Handler" declares a property
\* of its own and redeclares "title" of "Emitter" with another type.
MetaProperties(c) ==
    CASE c = "Emitter" -> {<<"value", "int">>, <<"title", "string">>}
      [] c = "Handler" -> {<<"level", "int">>, <<"title", "int">>}
      [] OTHER -> {}

PropertyNames(c) == {pn[1] : pn \in MetaProperties(c)}

\* MetaProperty::typeName of the property called name in descriptor c.
typeName(c, name) == (CHOOSE pn \in MetaProperties(c) : pn[1] = name)[2]

findPropertyOwnOnly(c, name) == IF name \in PropertyNames(c) THEN c ELSE NoMeta

\* MetaObject::findProperty: search the own vector, then recurse into the
\* parent.  The result is the descriptor holding the property, NoMeta for null.
RECURSIVE findPropertyFrom(_, _)
findPropertyFrom(c, name) ==
    IF name \in PropertyNames(c) THEN c
    ELSE IF MetaParent(c) # NoMeta THEN findPropertyFrom(MetaParent(c), name)
    ELSE NoMeta

findProperty(c, name) == findPropertyFrom(c, name)

----------------------------------------------------------------------------
(* Connection table *)

Connection(s, sig, r, slot, type) ==
    [sender |-> s, signal |-> sig, receiver |-> r, slot |-> slot,
     type |-> type, enabled |-> TRUE]

\* The identity of a connection: (sender, signal, receiver, slot).
SameFourTuple(a, b) ==
    <<a.sender, a.signal, a.receiver, a.slot>> = <<b.sender, b.signal, b.receiver, b.slot>>

ConnEqWithType(a, b) ==
    /\ a.sender = b.sender
    /\ a.signal = b.signal
    /\ a.receiver = b.receiver
    /\ a.slot = b.slot
    /\ a.type = b.type

\* Connection::operator==
ConnEq(a, b) ==
    /\ a.sender = b.sender
    /\ a.signal = b.signal
    /\ a.receiver = b.receiver
    /\ a.slot = b.slot

RECURSIVE SumLen(_, _)
SumLen(conns, S) ==
    IF S = {} THEN 0
    ELSE LET s == CHOOSE x \in S : TRUE
         IN Len(conns[s]) + SumLen(conns, S \ {s})

TableSize(conns) == SumLen(conns, DOMAIN conns)

ConnectValidateNoSlotCheck(s, sig, r, slot) ==
    IF s = NullObj \/ r = NullObj \/ sig = NullStr \/ slot = NullStr THEN "null"
    ELSE IF ~findSignal(metaObject(s), sig) THEN "nosignal"
    ELSE "lock"

\* connect, lines 17-31: the return statement the arguments lead to, or
\* "lock" when validation passes.
ConnectValidate(s, sig, r, slot) ==
    IF s = NullObj \/ r = NullObj \/ sig = NullStr \/ slot = NullStr THEN "null"
    ELSE IF ~findSignal(metaObject(s), sig) THEN "nosignal"
    ELSE IF ~findMethod(metaObject(r), slot) THEN "noslot"
    ELSE "lock"

\* connect, lines 33-53: duplicate check and insertion under mutex_.
ConnectInsert(conns, conn) ==
    IF conn.sender \in DOMAIN conns
    THEN IF \E i \in 1..Len(conns[conn.sender]) : ConnEq(conns[conn.sender][i], conn)
         THEN [table |-> conns, val |-> FALSE, why |-> "duplicate"]
         ELSE [table |-> [conns EXCEPT ![conn.sender] = Append(@, conn)],
               val |-> TRUE, why |-> "inserted"]
    ELSE [table |-> (conn.sender :> <<conn>>) @@ conns,
          val |-> TRUE, why |-> "inserted"]

\* The lambda of disconnect: a null pointer matches anything.
DisconnectMatch(conn, sig, r, slot) ==
    /\ sig = NullStr \/ conn.signal = sig
    /\ r = NullObj \/ conn.receiver = r
    /\ slot = NullStr \/ conn.slot = slot

RemoveAt(seq, i) == SubSeq(seq, 1, i - 1) \o SubSeq(seq, i + 1, Len(seq))

\* disconnect, lines 62-84: erase the first match, prune the emptied bucket.
DisconnectFirst(conns, s, sig, r, slot) ==
    IF s \notin DOMAIN conns THEN [table |-> conns, val |-> FALSE]
    ELSE
        LET list == conns[s]
            hits == {i \in 1..Len(list) : DisconnectMatch(list[i], sig, r, slot)}
        IN  IF hits = {} THEN [table |-> conns, val |-> FALSE]
            ELSE
                LET i == CHOOSE k \in hits : \A j \in hits : k <= j
                    rest == RemoveAt(list, i)
                IN  IF rest = <<>>
                    THEN [table |-> [x \in DOMAIN conns \ {s} |-> conns[x]],
                          val |-> TRUE]
                    ELSE [table |-> [conns EXCEPT ![s] = rest], val |-> TRUE]

DisconnectAllNoPrune(conns, obj) ==
    LET erased == [s \in DOMAIN conns \ {obj} |-> conns[s]]
    IN  [s \in DOMAIN erased |-> SelectSeq(erased[s], LAMBDA c : c.receiver # obj)]

DisconnectAllSenderOnly(conns, obj) ==
    [s \in DOMAIN conns \ {obj} |-> conns[s]]

\* disconnectAll, lines 90-113.
DisconnectAll(conns, obj) ==
    LET erased == [s \in DOMAIN conns \ {obj} |-> conns[s]]
        filtered == [s \in DOMAIN erased |->
                        SelectSeq(erased[s], LAMBDA c : c.receiver # obj)]
    IN  [s \in {x \in DOMAIN filtered : filtered[x] # <<>>} |-> filtered[s]]

RECURSIVE CopyIf(_, _)
CopyIf(list, sig) ==
    IF list = <<>> THEN <<>>
    ELSE IF Head(list).signal = sig /\ Head(list).enabled
         THEN <<Head(list)>> \o CopyIf(Tail(list), sig)
         ELSE CopyIf(Tail(list), sig)

RECURSIVE CopyIfReversed(_, _)
CopyIfReversed(list, sig) ==
    IF list = <<>> THEN <<>>
    ELSE IF Head(list).signal = sig /\ Head(list).enabled
         THEN CopyIfReversed(Tail(list), sig) \o <<Head(list)>>
         ELSE CopyIfReversed(Tail(list), sig)

findConnectionsReversed(conns, s, sig) ==
    IF s \notin DOMAIN conns THEN <<>> ELSE CopyIfReversed(conns[s], sig)

\* ConnectionManager::findConnections
findConnections(conns, s, sig) ==
    IF s \notin DOMAIN conns THEN <<>> ELSE CopyIf(conns[s], sig)

----------------------------------------------------------------------------
(* Object tree and destruction *)

Without(seq, x) == SelectSeq(seq, LAMBDA y : y # x)

InSeq(seq, x) == \E i \in 1..Len(seq) : seq[i] = x

SetParentNoRemove(st, o, p) ==
    IF st.parent[o] = p THEN st
    ELSE
        LET c2 == IF p # NullObj /\ ~InSeq(st.children[p], o)
                  THEN [st.children EXCEPT ![p] = Append(@, o)]
                  ELSE st.children
        IN  [st EXCEPT !.parent[o] = p, !.children = c2]

\* CObject::setParent with removeChild / addChild, on a state record.
SetParentSt(st, o, p) ==
    IF st.parent[o] = p THEN st
    ELSE
        LET old == st.parent[o]
            c1 == IF old # NullObj
                  THEN [st.children EXCEPT ![old] = Without(@, o)]
                  ELSE st.children
            c2 == IF p # NullObj /\ ~InSeq(c1[p], o)
                  THEN [c1 EXCEPT ![p] = Append(@, o)]
                  ELSE c1
        IN  [st EXCEPT !.parent[o] = p, !.children = c2]

\* CObject::~CObject: disconnectAll(this); setParent(nullptr); then delete the
\* children from the back of children_, each running the same destructor.
RECURSIVE DestroyObj(_, _)
RECURSIVE DeleteChildren(_, _)
RECURSIVE DeleteChildrenFront(_, _)
DeleteChildrenFront(st, o) ==
    IF st.children[o] = <<>> THEN st
    ELSE
        LET child == Head(st.children[o])
            s1 == [st EXCEPT !.children[o] = Tail(@)]
        IN  DeleteChildrenFront(DestroyObj(s1, child), o)

DestroyObj(st, o) ==
    LET s1 == [st EXCEPT !.connections = DisconnectAll(@, o),
                         !.trace = Append(@, <<"disconnectAll", o>>)]
        s2 == [SetParentSt(s1, o, NullObj) EXCEPT
                         !.trace = Append(@, <<"setParent", o>>)]
        s3 == DeleteChildren(s2, o)
    IN  [s3 EXCEPT !.alive[o] = FALSE, !.trace = Append(@, <<"freed", o>>)]

DeleteChildren(st, o) ==
    IF st.children[o] = <<>> THEN st
    ELSE
        LET n == Len(st.children[o])
            child == st.children[o][n]
            s1 == [st EXCEPT !.children[o] = SubSeq(@, 1, n - 1)]
        IN  DeleteChildren(DestroyObj(s1, child), o)

----------------------------------------------------------------------------
(* Initial state: o1, o2 constructed without parent, o3 constructed with   *)
(* parent o2; no connection made yet.                                      *)

Idle == [pc |-> "idle"]
NoRet == [val |-> FALSE, why |-> "none", raced |-> FALSE]

NoRun == [receiver |-> NullObj, thread |-> "none", via |-> "none"]
\* CApplication constructed (instance_ and dispatcher_ set), exec() not entered.
\* ret is <<v>> once the last exec() call has returned v; codes, quits and
\* exiting are not members: the codes passed to exit() and whether quit() was
\* called since exec() was entered, and per thread <<code>> while its exit()
\* call has set quitFlag_ and not yet returnCode_.
NotInExec == [thread |-> "none", pc |-> "none", instance |-> TRUE,
              dispatcher |-> TRUE, quitFlag |-> FALSE, returnCode |-> 0,
              ret |-> <<>>, codes |-> {}, quits |-> FALSE,
              exiting |-> [t \in Threads |-> <<>>]]

NoTimer == [pc |-> "idle", id |-> 0, interval |-> 0, receiver |-> NullObj,
            seen |-> 0, ret |-> 0, why |-> "none"]
NoCall == [obj |-> NullObj, name |-> NullStr]
NoDisconnect == [called |-> FALSE]
NoInvoke == [called |-> FALSE]
NoPost == [called |-> FALSE]
NoFind == [called |-> FALSE]
NoWalk == [pc |-> "idle"]
NoRemove == [called |-> FALSE]
\* IPCImplement after start() (lines 36-64), over a freshly initialised
\* shared memory (ipc_shared_memory.cpp lines 70-77: the positions are 0).
StartedIpc ==
    [running |-> TRUE, send_queue |-> <<>>, accepted |-> 0,
     sender |-> [pc |-> "wait", retry |-> 0, message |-> <<>>],
     write_pos |-> 0, read_pos |-> 0, unread |-> <<>>, written |-> <<>>]

NoObjectPool == [made |-> FALSE]
NoAcquire == [called |-> FALSE]

\* ThreadPool::ThreadPool(threads), lines 6-27: stop false, no task, every
\* worker at the top of its loop.
Workers == {"w1", "w2"}
NewPool == [stop |-> FALSE, tasks |-> 0, mutex |-> "none",
            w |-> [x \in Workers |-> "top"], main |-> "idle", ran |-> 0]
NoPropRet == [set |-> NoCall, get |-> NoCall]
\* The descriptors of the chain of c, c first.
RECURSIVE ClassesFrom(_)
ClassesFrom(c) == IF c = NoMeta THEN {} ELSE {c} \cup ClassesFrom(MetaParent(c))

\* A std::any holding a value of the named type, and the empty std::any.
AnyOf(type, v) == [type |-> type, v |-> v]
EmptyAny == [type |-> "void", v |-> "none"]

\* The member behind a property after construction.
DefaultValue(type) == IF type = "int" THEN AnyOf("int", 0) ELSE AnyOf("string", "")

\* Per object: one member per property declared in its chain (own), and the
\* empty dynamic_properties_ map (dyn).
InitProps(o) ==
    [own |-> [cp \in UNION {{<<c, name>> : name \in PropertyNames(c)} :
                                c \in ClassesFrom(metaObject(o))}
                 |-> DefaultValue(typeName(cp[1], cp[2]))],
     dyn |-> <<>>]

InitBase ==
    /\ alive = [o \in Objects |-> TRUE]
    /\ parent = [o \in Objects |-> IF o = "o3" THEN "o2" ELSE NullObj]
    /\ children = [o \in Objects |-> IF o = "o2" THEN <<"o3">> ELSE <<>>]
    /\ connections = <<>>
    /\ em = Idle
    /\ log = <<>>
    /\ cn = [t \in Threads |-> Idle]
    /\ ret = [t \in Threads |-> NoRet]
    /\ fault = "none"
    /\ eventQueue = <<>>
    /\ app = NotInExec
    /\ events = <<>>
    /\ mc = [t \in Threads |-> Idle]
    /\ promise = [t \in Threads |-> "none"]
    /\ lastRun = NoRun
    /\ evs = <<>>
    /\ dlog = <<>>
    /\ dtrace = <<>>
    /\ timerList = <<>>
    /\ tret = [t \in Threads |-> NoTimer]
    /\ issued = <<>>
    /\ props = [o \in Objects |-> InitProps(o)]
    /\ pret = NoPropRet
    /\ now = 0
    /\ tlog = <<>>
    /\ stalled = {}
    /\ dret = NoDisconnect
    /\ inv = NoInvoke
    /\ pcall = NoPost
    /\ metaMap = <<>>
    /\ regs = <<>>
    /\ fret = NoFind
    /\ walk = NoWalk
    /\ kills = <<>>
    /\ rcall = NoRemove
    /\ tp = NewPool
    /\ op = NoObjectPool
    /\ oret = NoAcquire
    /\ ipc = StartedIpc
    /\ exc = "none"

\* Every object constructed by thread t1.
Init == InitBase /\ owner = [o \in Objects |-> "t1"] /\ nextTimerId = 1

Running == fault # "crash"

LiveOrNull(o) == o = NullObj \/ (o \in Objects /\ alive[o])

\* No thread is inside a connect call that was handed o.
NotInConnect(o) ==
    \A t \in Threads :
        cn[t].pc = "validated" => cn[t].conn.sender # o /\ cn[t].conn.receiver # o

----------------------------------------------------------------------------
(* ConnectionManager::connect *)

\* Lines 14-31, up to the lock.
ConnectCall(t, s, sig, r, slot, type) ==
    /\ Running
    /\ cn[t].pc = "idle"
    /\ LiveOrNull(s) /\ LiveOrNull(r)
    /\ LET v == ConnectValidate(s, sig, r, slot)
       IN  IF v = "lock"
           THEN /\ cn' = [cn EXCEPT ![t] = [pc |-> "validated",
                                            conn |-> Connection(s, sig, r, slot, type),
                                            raced |-> FALSE]]
                /\ ret' = [ret EXCEPT ![t] = NoRet]
           ELSE /\ ret' = [ret EXCEPT ![t] = [val |-> FALSE, why |-> v, raced |-> FALSE]]
                /\ cn' = cn
    /\ UNCHANGED <<alive, parent, children, connections, em, log, fault>>
    /\ UNCHANGED evVars
    /\ UNCHANGED auxVars

\* Lines 33-53, under mutex_.
ConnectLocked(t) ==
    /\ Running
    /\ cn[t].pc = "validated"
    /\ LET res == ConnectInsert(connections, cn[t].conn)
       IN  /\ res.val => TableSize(connections) < MaxConns
           /\ connections' = res.table
           /\ ret' = [ret EXCEPT ![t] = [val |-> res.val, why |-> res.why,
                                         raced |-> cn[t].raced]]
           /\ cn' = [u \in Threads |->
                        IF u = t THEN Idle
                        ELSE IF res.val /\ cn[u].pc = "validated"
                                /\ SameFourTuple(cn[u].conn, cn[t].conn)
                             THEN [cn[u] EXCEPT !.raced = TRUE]
                             ELSE cn[u]]
    /\ UNCHANGED <<alive, parent, children, em, log, fault>>
    /\ UNCHANGED evVars
    /\ UNCHANGED auxVars

\* The whole call in one step: validation reads only the immutable descriptors.
Connect(t, s, sig, r, slot, type) ==
    /\ Running
    /\ cn[t].pc = "idle"
    /\ LiveOrNull(s) /\ LiveOrNull(r)
    /\ LET v == ConnectValidate(s, sig, r, slot)
       IN  IF v = "lock"
           THEN LET res == ConnectInsert(connections, Connection(s, sig, r, slot, type))
                IN  /\ res.val => TableSize(connections) < MaxConns
                    /\ connections' = res.table
                    /\ ret' = [ret EXCEPT ![t] = [val |-> res.val, why |-> res.why,
                                                  raced |-> FALSE]]
           ELSE /\ ret' = [ret EXCEPT ![t] = [val |-> FALSE, why |-> v, raced |-> FALSE]]
                /\ connections' = connections
    /\ UNCHANGED <<alive, parent, children, em, log, cn, fault>>
    /\ UNCHANGED evVars
    /\ UNCHANGED auxVars

----------------------------------------------------------------------------
(* ConnectionManager::disconnect *)

Disconnect(s, sig, r, slot) ==
    /\ Running
    /\ LiveOrNull(s) /\ LiveOrNull(r)
    /\ s # NullObj
    /\ connections' = DisconnectFirst(connections, s, sig, r, slot).table
    /\ UNCHANGED <<alive, parent, children, em, log, cn, ret, fault>>
    /\ UNCHANGED evVars
    /\ UNCHANGED auxVars

\* ConnectionManager::disconnect (lines 56-85) with its return value kept:
\* false for a null sender, otherwise the first match of the sender's list is
\* erased.
DisconnectCall(s, sig, r, slot) ==
    /\ Running
    /\ LiveOrNull(s) /\ LiveOrNull(r)
    /\ LET res == IF s = NullObj THEN [table |-> connections, val |-> FALSE]
                  ELSE DisconnectFirst(connections, s, sig, r, slot)
       IN  /\ connections' = res.table
           /\ dret' = [called |-> TRUE, sender |-> s, signal |-> sig, receiver |-> r,
                       slot |-> slot, before |-> connections, after |-> res.table,
                       val |-> res.val]
    /\ UNCHANGED <<alive, parent, children, em, log, cn, ret, fault>>
    /\ UNCHANGED evVars
    /\ UNCHANGED <<postVars, dtrace, timerVars, propVars, clockVars, inv, exc, pcall, libVars>>

----------------------------------------------------------------------------
(* delete o *)

\* The objects, their tree and the connection table, as the record the
\* operators of the destructor work on.
ObjState ==
    [alive |-> alive, parent |-> parent, children |-> children,
     connections |-> connections, trace |-> <<>>]

\* The effect of delete o on the objects, the table and the trace.
Deleted(o) ==
    LET st == DestroyObj(ObjState, o)
    IN  /\ alive' = st.alive
        /\ parent' = st.parent
        /\ children' = st.children
        /\ connections' = st.connections
        /\ dtrace' = st.trace

Destroy(o) ==
    /\ Running
    /\ alive[o]
    /\ NotInConnect(o)
    /\ Deleted(o)
    /\ UNCHANGED <<em, log, cn, ret, fault>>
    /\ UNCHANGED evVars
    /\ UNCHANGED <<postVars, timerVars, propVars, clockVars, callVars>>

----------------------------------------------------------------------------
(* Construction and setParent *)

\* CObject::setParent (lines 42-47) called on o.
SetParent(o, p) ==
    /\ Running
    /\ alive[o]
    /\ LiveOrNull(p)
    /\ LET st == SetParentSt(ObjState, o, p)
       IN  /\ parent' = st.parent
           /\ children' = st.children
    /\ UNCHANGED <<alive, connections, em, log, cn, ret, fault>>
    /\ UNCHANGED evVars
    /\ UNCHANGED auxVars

\* CObject::CObject (lines 23-25) run by thread t for a new object placed
\* where a deleted one was: parent_ null, children_ empty, then setParent.
Construct(t, o, p) ==
    /\ Running
    /\ ~alive[o]
    /\ LiveOrNull(p)
    /\ LET fresh == [ObjState EXCEPT !.alive[o] = TRUE, !.parent[o] = NullObj,
                                     !.children[o] = <<>>]
           st == SetParentSt(fresh, o, p)
       IN  /\ alive' = st.alive
           /\ parent' = st.parent
           /\ children' = st.children
    /\ owner' = [owner EXCEPT ![o] = t]
    /\ UNCHANGED <<connections, em, log, cn, ret, fault>>
    /\ UNCHANGED <<eventQueue, app, events, mc, promise, lastRun>>
    /\ UNCHANGED auxVars

----------------------------------------------------------------------------
(* Properties *)

\* CObject::property (lines 70-76) with dynamicProperty (83-89).
property(pr, o, name) ==
    LET prop == findProperty(metaObject(o), name)
    IN  IF prop # NoMeta THEN pr[o].own[<<prop, name>>]
        ELSE IF name \in DOMAIN pr[o].dyn THEN pr[o].dyn[name]
        ELSE EmptyAny

\* CObject::setProperty (lines 61-68) with the setter generated by PROPERTY
\* (cobject.hpp 97-102, 110-112) and setDynamicProperty (78-81).  The setter
\* casts the value with std::any_cast<type>, which throws std::bad_any_cast
\* on another type; nothing on the way catches it.  The change signal the
\* setter emits has no connection: no class declares it as a signal, so
\* connect refuses it.
setProperty(pr, o, name, value) ==
    LET prop == findProperty(metaObject(o), name)
    IN  IF prop # NoMeta
        THEN IF value.type = typeName(prop, name)
             THEN [props |-> [pr EXCEPT ![o].own[<<prop, name>>] = value],
                   ret |-> "true", exc |-> "none"]
             ELSE [props |-> pr, ret |-> "none", exc |-> "std::bad_any_cast"]
        ELSE [props |-> [pr EXCEPT ![o].dyn = (name :> value) @@ @],
              ret |-> "true", exc |-> "none"]

\* A call of setProperty; what it was given, found before, and gave back.
SetProperty(o, name, value) ==
    /\ Running
    /\ alive[o]
    /\ LET r == setProperty(props, o, name, value)
       IN  /\ props' = r.props
           /\ pret' = [set |-> [obj |-> o, name |-> name, arg |-> value,
                                before |-> property(props, o, name),
                                ret |-> r.ret, exc |-> r.exc],
                       get |-> NoCall]
    /\ UNCHANGED <<alive, parent, children, connections, em, log, cn, ret, fault>>
    /\ UNCHANGED evVars
    /\ UNCHANGED <<postVars, dtrace, timerVars, clockVars, callVars>>

\* A call of property.
GetProperty(o, name) ==
    /\ Running
    /\ alive[o]
    /\ pret' = [pret EXCEPT !.get = [obj |-> o, name |-> name,
                                     val |-> property(props, o, name)]]
    /\ UNCHANGED <<alive, parent, children, connections, em, log, cn, ret, fault>>
    /\ UNCHANGED evVars
    /\ UNCHANGED <<postVars, dtrace, timerVars, props, clockVars, callVars>>

----------------------------------------------------------------------------
(* ConnectionManager::emitSignal *)

\* The table entries an emission has to reach: the sender's connections for
\* the signal, enabled, in the order of the sender's list.
MatchingEnabled(conns, s, sig) ==
    IF s \in DOMAIN conns
    THEN SelectSeq(conns[s], LAMBDA c : c.signal = sig /\ c.enabled)
    ELSE <<>>

\* Lines 118-126: null check, then the snapshot under mutex_.
EmitStart(t, s, sig) ==
    /\ Running
    /\ em.pc = "idle"
    /\ mc[t].pc = "idle"
    /\ LiveOrNull(s)
    /\ em' = [pc |-> "run", thread |-> t, sender |-> s, signal |-> sig,
              activeConnections |->
                  IF s = NullObj \/ sig = NullStr THEN <<>>
                  ELSE findConnections(connections, s, sig),
              expect |->
                  IF s = NullObj \/ sig = NullStr THEN <<>>
                  ELSE MatchingEnabled(connections, s, sig),
              i |-> 0, failed |-> {}]
    /\ log' = <<>>
    /\ UNCHANGED <<alive, parent, children, connections, cn, ret, fault>>
    /\ UNCHANGED evVars
    /\ UNCHANGED auxVars

LoopOverLiveTable(e) ==
    SelectSeq(e.activeConnections,
              LAMBDA c : c.sender \in DOMAIN connections
                         /\ InSeq(connections[c.sender], c))

\* The range of the loop at lines 129-133: the snapshot taken at the start.
LoopRange(e) == e.activeConnections

\* What a slot called through slot->invoke can do: return, throw an
\* exception derived from std::exception (std::bad_any_cast when the adapter
\* rejects the arguments), or throw anything else.
SlotOutcomes == {"returned", "std::exception", "other"}

invokeSlotStdOnly(outcome) ==
    IF outcome = "other" THEN "other" ELSE "none"

\* invokeSlot, lines 155-166: what leaves the call.  Both handlers (161, 164)
\* end the exception.
invokeSlot(outcome) == "none"

\* Lines 129-133 with invokeSlot (154-167): one iteration of the loop, the
\* slot doing one of `outcomes`.  The slot is looked up on the receiver and
\* invoked on the emitting thread, whatever conn.type is.  A receiver that was
\* deleted since the snapshot is dereferenced all the same: the call runs on
\* freed memory or the process dies.  An exception that left invokeSlot
\* would leave the loop and emitSignal.
EmitInvokeWith(outcomes) ==
    /\ Running
    /\ em.pc = "run"
    /\ mc[em.thread].pc = "idle"
    /\ em.i < Len(LoopRange(em))
    /\ LET conn == LoopRange(em)[em.i + 1]
       IN  IF alive[conn.receiver]
           THEN \E outcome \in outcomes :
                   IF invokeSlot(outcome) = "none"
                   THEN /\ log' = Append(log, conn)
                        /\ em' = [em EXCEPT !.i = @ + 1,
                                            !.failed = IF outcome = "returned" THEN @
                                                       ELSE @ \cup {em.i + 1}]
                        /\ fault' = fault
                        /\ exc' = exc
                   ELSE /\ log' = Append(log, conn)
                        /\ em' = Idle
                        /\ fault' = fault
                        /\ exc' = invokeSlot(outcome)
           ELSE \/ /\ log' = Append(log, conn)
                   /\ em' = [em EXCEPT !.i = @ + 1]
                   /\ fault' = "use-after-free"
                   /\ exc' = exc
                \/ /\ log' = log
                   /\ em' = em
                   /\ fault' = "crash"
                   /\ exc' = exc
    /\ UNCHANGED <<alive, parent, children, connections, cn, ret>>
    /\ UNCHANGED evVars
    /\ UNCHANGED <<postVars, dtrace, timerVars, propVars, clockVars, dret, inv, pcall, libVars>>

\* One iteration of the loop over a slot that returns.
EmitInvoke == EmitInvokeWith({"returned"})

\* Line 134: the loop is over, emitSignal returns.
EmitReturn ==
    /\ Running
    /\ em.pc = "run"
    /\ mc[em.thread].pc = "idle"
    /\ em.i >= Len(LoopRange(em))
    /\ em' = Idle
    /\ log' = <<>>
    /\ UNCHANGED <<alive, parent, children, connections, cn, ret, fault>>
    /\ UNCHANGED evVars
    /\ UNCHANGED auxVars

----------------------------------------------------------------------------
(* Spec: the connection table under connect / disconnect / delete, with one *)
(* emission in progress whose slots (or other threads) make those calls.    *)

SignalArgs == {"changed", "reset", "bogus", NullStr}
SlotArgs == {"onChanged", "bogus", NullStr}
SenderArgs == {"o1", "o2", NullObj}
ObjArgs == Objects \cup {NullObj}

\* connect's inputs: every combination that passes validation, and those that
\* differ from a valid one in a single position.
ValidConnectArgs ==
    {a \in SenderArgs \X SignalArgs \X ObjArgs \X SlotArgs :
        ConnectValidate(a[1], a[2], a[3], a[4]) = "lock"}

ConnectArgs ==
    UNION {{a} \cup {<<s, a[2], a[3], a[4]>> : s \in SenderArgs}
               \cup {<<a[1], sig, a[3], a[4]>> : sig \in SignalArgs}
               \cup {<<a[1], a[2], r, a[4]>> : r \in ObjArgs}
               \cup {<<a[1], a[2], a[3], slot>> : slot \in SlotArgs}
           : a \in ValidConnectArgs}

\* disconnect's inputs: a sender, and a name or null in the other positions.
DisconnectArgs ==
    (SenderArgs \ {NullObj}) \X {"changed", "reset", NullStr}
        \X {"o2", "o3", NullObj} \X {NullStr}

Next ==
    \/ \E a \in ValidConnectArgs :
           Connect("t1", a[1], a[2], a[3], a[4], kDirectConnection)
    \/ \E a \in DisconnectArgs : Disconnect(a[1], a[2], a[3], a[4])
    \/ \E o \in Objects : Destroy(o)
    \/ \E s \in SenderArgs, sig \in {"changed", "reset", NullStr} :
           EmitStart("t1", s, sig)
    \/ EmitInvoke
    \/ EmitReturn

Spec == Init /\ [][Next]_vars

----------------------------------------------------------------------------
(* SpecConnect: connect called with valid and with invalid arguments, in    *)
(* any state of the table that connect, disconnect and delete produce.      *)

NextConnect ==
    \/ \E a \in ConnectArgs :
           Connect("t1", a[1], a[2], a[3], a[4], kDirectConnection)
    \/ \E a \in DisconnectArgs : Disconnect(a[1], a[2], a[3], a[4])
    \/ \E o \in Objects : Destroy(o)

SpecConnect == Init /\ [][NextConnect]_vars

----------------------------------------------------------------------------
(* SpecRace: connect calls of two threads interleaved at the lock, with     *)
(* disconnect and delete in between.                                        *)

RaceArgs == {"o1", "o2"} \X {"changed"} \X {"o2", "o3", "o1"} \X {"onChanged"}

NextRace ==
    \/ \E t \in Threads, a \in RaceArgs,
          type \in {kDirectConnection, kQueuedConnection} :
           ConnectCall(t, a[1], a[2], a[3], a[4], type)
    \/ \E t \in Threads : ConnectLocked(t)
    \/ \E a \in RaceArgs : Disconnect(a[1], NullStr, a[3], NullStr)
    \/ \E o \in Objects : Destroy(o)

SpecRace == Init /\ [][NextRace]_vars

----------------------------------------------------------------------------
(* CApplication: posted events and the pump; CObject::metacall and event    *)

MetaCallEvent(slot, p) == [type |-> "MetaCall", slot |-> slot, promise |-> p]

\* An Event of another type (DeferredDelete, User, ...): the base class only.
PlainEvent(type) == [type |-> type, slot |-> NullStr, promise |-> "none"]

\* The null Event*: no Event object behind it.
NullEv == [type |-> "nullptr", slot |-> NullStr, promise |-> "none"]

\* new Event: the allocation number stands for the pointer.
New(e) == [id |-> Len(evs) + 1] @@ e

PostedEvent(r, e) == [receiver |-> r, event |-> e]

Posted == Len(eventQueue) + Len(events)

\* CApplication::postEvent, line 92: the event is deleted instead of queued.
RejectedNullReceiverOnly(r, e) == ~app.instance \/ r = NullObj

Rejected(r, e) == ~app.instance \/ r = NullObj \/ e.type = NullEv.type

postEventFront(q, r, e) == IF Rejected(r, e) THEN q ELSE <<PostedEvent(r, e)>> \o q

\* CApplication::postEvent, lines 91-103.
postEvent(q, r, e) == IF Rejected(r, e) THEN q ELSE Append(q, PostedEvent(r, e))

\* The record kept of the event allocated by thread t and handed to postEvent.
Allocated(t, r, e) ==
    Append(evs, [receiver |-> r, poster |-> t, type |-> e.type,
                 deleted |-> IF Rejected(r, e) THEN 1 ELSE 0])

\* delete event
Delete(ev, id) == [ev EXCEPT ![id].deleted = @ + 1]

\* Lines 116-123 of metacall: the mode a delivery is made in.
EffectiveType(type, sameThread) ==
    IF type = kAutoConnection
    THEN IF sameThread THEN kDirectConnection ELSE kQueuedConnection
    ELSE type

\* CObject::metacall called by thread t on receiver recv (lines 112-171).
Metacall(t, recv, slot, type, sender) ==
    /\ Running
    /\ mc[t].pc = "idle"
    /\ alive[recv] /\ alive[sender]
    /\ slot # NullStr
    /\ findMethod(metaObject(recv), slot)
    /\ LET sameThread == owner[sender] = owner[recv]
           effectiveType == EffectiveType(type, sameThread)
       IN  IF effectiveType = kDirectConnection
              \/ (effectiveType = kBlockingConnection /\ sameThread)
           THEN /\ lastRun' = [receiver |-> recv, thread |-> t, via |-> "metacall"]
                /\ UNCHANGED <<eventQueue, mc, promise, evs>>
           ELSE IF effectiveType = kQueuedConnection
           THEN /\ Posted < MaxQueue /\ Len(evs) < MaxEvents
                /\ eventQueue' = postEvent(eventQueue, recv, New(MetaCallEvent(slot, "none")))
                /\ evs' = Allocated(t, recv, MetaCallEvent(slot, "none"))
                /\ UNCHANGED <<lastRun, mc, promise>>
           ELSE /\ Posted < MaxQueue /\ Len(evs) < MaxEvents
                /\ promise' = [promise EXCEPT ![t] = "pending"]
                /\ eventQueue' = postEvent(eventQueue, recv, New(MetaCallEvent(slot, t)))
                /\ evs' = Allocated(t, recv, MetaCallEvent(slot, t))
                /\ mc' = [mc EXCEPT ![t] = [pc |-> "wait", receiver |-> recv]]
                /\ UNCHANGED lastRun
    /\ UNCHANGED <<alive, parent, children, connections, em, log, cn, ret, fault,
                   owner, app, events>>
    /\ UNCHANGED <<dlog, dtrace, timerVars, propVars, clockVars, callVars>>

Signalled == {"value", "exception"}

\* Lines 158-160: future.wait() returns once the shared state is ready.
McReturn(t) ==
    /\ Running
    /\ mc[t].pc = "wait"
    /\ promise[t] \in Signalled
    /\ mc' = [mc EXCEPT ![t] = Idle]
    /\ promise' = [promise EXCEPT ![t] = "none"]
    /\ UNCHANGED <<alive, parent, children, connections, em, log, cn, ret, fault,
                   owner, eventQueue, app, events, lastRun>>
    /\ UNCHANGED auxVars

\* The thread inside exec() is between two statements of the loop, not inside
\* a call it made from a handler.
InLoop ==
    /\ app.thread # "none"
    /\ app.pc = "loop"
    /\ mc[app.thread].pc = "idle"
    /\ em.pc = "run" => em.thread # app.thread

\* CApplication::exec entered by thread t (lines 56-63).
ExecStart(t) ==
    /\ Running
    /\ app.thread = "none"
    /\ app.instance /\ app.dispatcher
    /\ mc[t].pc = "idle"
    /\ em.pc = "run" => em.thread # t
    /\ app' = [app EXCEPT !.thread = t, !.pc = "loop", !.quitFlag = FALSE,
                           !.returnCode = 0, !.ret = <<>>, !.codes = {},
                           !.quits = FALSE]
    /\ UNCHANGED <<alive, parent, children, connections, em, log, cn, ret, fault,
                   owner, eventQueue, events, mc, promise, lastRun>>
    /\ UNCHANGED auxVars

\* The loop test of line 63 and processPostedEvents, lines 132-136: swap the
\* queue out under the lock.
PumpSwap ==
    /\ Running
    /\ InLoop
    /\ events = <<>>
    /\ ~app.quitFlag
    /\ eventQueue # <<>>
    /\ events' = eventQueue
    /\ eventQueue' = <<>>
    /\ UNCHANGED <<alive, parent, children, connections, em, log, cn, ret, fault,
                   owner, app, mc, promise, lastRun>>
    /\ UNCHANGED auxVars

\* CObject::event for a MetaCall event (lines 247-271): the slot runs on the
\* calling thread; the promise, if any, gets a value, or the exception of a
\* slot that threw a std::exception.
EventMetaCall(pe, threw) ==
    /\ lastRun' = [receiver |-> pe.receiver, thread |-> app.thread, via |-> "event"]
    /\ promise' = IF pe.event.promise = "none" THEN promise
                  ELSE [promise EXCEPT ![pe.event.promise] =
                            IF threw THEN "exception" ELSE "value"]

\* CObject::event for any other event (lines 273-288): a deferred delete is
\* handled in PumpDispatch; timerEvent and childEvent are empty in CObject,
\* and an unknown type falls through.
EventOther(pe) ==
    /\ lastRun' = [receiver |-> pe.receiver, thread |-> app.thread, via |-> "event"]
    /\ promise' = promise

\* processPostedEvents, lines 138-145: one iteration, sendEvent then delete
\* pe.event.  The receiver pointer is used as posted; if the object has been
\* deleted meanwhile the virtual call runs on freed memory or the process dies.
\* A slot that throws something not derived from std::exception is not caught
\* by CObject::event (line 259), nor by sendEvent, processPostedEvents or
\* exec: the exception leaves exec(), unwinding destroys the batch vector and
\* none of the events still in it is deleted.
PumpDispatch ==
    /\ Running
    /\ InLoop
    /\ events # <<>>
    /\ LET pe == Head(events)
           sent == /\ events' = Tail(events)
                   /\ dlog' = Append(dlog, pe.event.id)
                   /\ evs' = Delete(evs, pe.event.id)
                   /\ app' = app
                   /\ exc' = exc
       IN  \/ /\ alive[pe.receiver]
              /\ pe.event.type = "MetaCall"
              /\ \E threw \in BOOLEAN :
                     (threw => pe.event.promise # "none") /\ EventMetaCall(pe, threw)
              /\ sent
              /\ UNCHANGED <<alive, parent, children, connections, dtrace, fault>>
           \/ /\ alive[pe.receiver]
              /\ pe.event.type = "MetaCall"
              /\ lastRun' = [receiver |-> pe.receiver, thread |-> app.thread,
                             via |-> "event"]
              /\ dlog' = Append(dlog, pe.event.id)
              /\ events' = <<>>
              /\ app' = [app EXCEPT !.thread = "none", !.pc = "none"]
              /\ exc' = "other"
              /\ UNCHANGED <<promise, evs>>
              /\ UNCHANGED <<alive, parent, children, connections, dtrace, fault>>
           \/ /\ alive[pe.receiver]
              /\ pe.event.type = "DeferredDelete"
              /\ EventOther(pe)
              /\ Deleted(pe.receiver)
              /\ sent
              /\ fault' = fault
           \/ /\ alive[pe.receiver]
              /\ pe.event.type \notin {"MetaCall", "DeferredDelete"}
              /\ EventOther(pe)
              /\ sent
              /\ UNCHANGED <<alive, parent, children, connections, dtrace, fault>>
           \/ /\ ~alive[pe.receiver]
              /\ IF pe.event.type = "MetaCall"
                 THEN EventMetaCall(pe, FALSE) ELSE EventOther(pe)
              /\ sent
              /\ fault' = "use-after-free"
              /\ UNCHANGED <<alive, parent, children, connections, dtrace>>
           \/ /\ ~alive[pe.receiver]
              /\ fault' = "crash"
              /\ UNCHANGED <<events, lastRun, promise, dlog, evs, app, exc>>
              /\ UNCHANGED <<alive, parent, children, connections, dtrace>>
    /\ UNCHANGED <<em, log, cn, ret, owner, eventQueue, mc>>
    /\ UNCHANGED <<timerVars, propVars, clockVars, dret, inv, pcall, libVars>>

\* CApplication::postEvent called by thread t with a new Event of the given
\* type for receiver r; CObject::deleteLater (lines 173-176) is the call with
\* r = this and type DeferredDelete.
PostEvent(t, r, type) ==
    /\ Running
    /\ LiveOrNull(r)
    /\ Len(evs) < MaxEvents
    /\ eventQueue' = postEvent(eventQueue, r, New(PlainEvent(type)))
    /\ evs' = Allocated(t, r, PlainEvent(type))
    /\ UNCHANGED <<alive, parent, children, connections, em, log, cn, ret, fault,
                   owner, app, events, mc, promise, lastRun>>
    /\ UNCHANGED <<dlog, dtrace, timerVars, propVars, clockVars, callVars>>

\* CApplication::postEvent called by thread t with the argument pair (r, e),
\* where e is PlainEvent(type), for a new Event of that type, or NullEv for nullptr
\* (`delete event` on line 93 then does nothing); the call is recorded with
\* the queue on entry and on return.
PostCall(t, r, e) ==
    /\ Running
    /\ LiveOrNull(r)
    /\ LET event == IF e = NullEv THEN NullEv ELSE New(e)
       IN  /\ e # NullEv => Len(evs) < MaxEvents
           /\ eventQueue' = postEvent(eventQueue, r, event)
           /\ evs' = IF e = NullEv THEN evs ELSE Allocated(t, r, e)
           /\ pcall' = [called |-> TRUE, receiver |-> r,
                        event |-> IF e = NullEv THEN 0 ELSE event.id,
                        instance |-> app.instance,
                        before |-> eventQueue, after |-> eventQueue']
    /\ UNCHANGED <<alive, parent, children, connections, em, log, cn, ret, fault,
                   owner, app, events, mc, promise, lastRun>>
    /\ UNCHANGED <<dlog, dtrace, timerVars, propVars, clockVars, dret, inv, exc, libVars>>

\* The predicate of removePostedEvents, lines 116-117.
RemoveMatch(pe, r, type) ==
    /\ r = NullObj \/ pe.receiver = r
    /\ type = "None" \/ pe.event.type = type

RECURSIVE DeleteAll(_, _)
DeleteAll(ev, pes) ==
    IF pes = <<>> THEN ev ELSE DeleteAll(Delete(ev, Head(pes).event.id), Tail(pes))

\* CApplication::removePostedEvents (lines 105-125).
RemovePostedEvents(r, type) ==
    /\ Running
    /\ app.instance
    /\ eventQueue' = SelectSeq(eventQueue, LAMBDA pe : ~RemoveMatch(pe, r, type))
    /\ evs' = DeleteAll(evs, SelectSeq(eventQueue, LAMBDA pe : RemoveMatch(pe, r, type)))
    /\ UNCHANGED <<alive, parent, children, connections, em, log, cn, ret, fault,
                   owner, app, events, mc, promise, lastRun>>
    /\ UNCHANGED <<dlog, dtrace, timerVars, propVars, clockVars, callVars>>

\* CApplication::removePostedEvents with the call recorded: how many events
\* had been allocated and how many delivered when it ran, and the queue on
\* entry and on return.  The caller is any thread, or a handler the pump is
\* running: the batch swapped out by processPostedEvents is a local vector.
RemoveCall(r, type) ==
    /\ Running
    /\ app.instance
    /\ eventQueue' = SelectSeq(eventQueue, LAMBDA pe : ~RemoveMatch(pe, r, type))
    /\ evs' = DeleteAll(evs, SelectSeq(eventQueue, LAMBDA pe : RemoveMatch(pe, r, type)))
    /\ rcall' = [called |-> TRUE, receiver |-> r, type |-> type,
                 upto |-> Len(evs), at |-> Len(dlog),
                 before |-> eventQueue, after |-> eventQueue']
    /\ UNCHANGED <<alive, parent, children, connections, em, log, cn, ret, fault,
                   owner, app, events, mc, promise, lastRun>>
    /\ UNCHANGED <<dlog, dtrace, timerVars, propVars, clockVars,
                   dret, inv, exc, pcall, exceptRem>>

\* CApplication::quit (lines 71-73).
Quit ==
    /\ Running
    /\ app.instance
    /\ app' = [app EXCEPT !.quitFlag = TRUE, !.quits = @ \/ app.thread # "none"]
    /\ UNCHANGED <<alive, parent, children, connections, em, log, cn, ret, fault,
                   owner, eventQueue, events, mc, promise, lastRun>>
    /\ UNCHANGED auxVars

\* Lines 63 and 68: the loop test fails after a whole batch, exec returns.
ExecReturn ==
    /\ Running
    /\ InLoop
    /\ events = <<>>
    /\ app.quitFlag
    /\ app' = [app EXCEPT !.thread = "none", !.pc = "none", !.ret = <<app.returnCode>>]
    /\ UNCHANGED <<alive, parent, children, connections, em, log, cn, ret, fault,
                   owner, eventQueue, events, mc, promise, lastRun>>
    /\ UNCHANGED auxVars

\* CApplication::exec called by thread t (lines 56-59), seen from the other
\* threads: without a dispatcher it returns -1 at once, otherwise the thread
\* is inside exec() and has not reset the flag yet.
ExecEnter(t) ==
    /\ Running
    /\ app.thread = "none"
    /\ app.instance
    /\ mc[t].pc = "idle"
    /\ em.pc = "run" => em.thread # t
    /\ app.exiting[t] = <<>>
    /\ app' = IF app.dispatcher
              THEN [app EXCEPT !.thread = t, !.pc = "entered", !.ret = <<>>,
                               !.codes = {}, !.quits = FALSE]
              ELSE [app EXCEPT !.ret = <<-1>>, !.codes = {}, !.quits = FALSE]
    /\ UNCHANGED <<alive, parent, children, connections, em, log, cn, ret, fault,
                   owner, eventQueue, events, mc, promise, lastRun>>
    /\ UNCHANGED auxVars

\* Lines 60-61: quitFlag_ = false; returnCode_ = 0.
ExecReset ==
    /\ Running
    /\ app.pc = "entered"
    /\ app' = [app EXCEPT !.pc = "loop", !.quitFlag = FALSE, !.returnCode = 0]
    /\ UNCHANGED <<alive, parent, children, connections, em, log, cn, ret, fault,
                   owner, eventQueue, events, mc, promise, lastRun>>
    /\ UNCHANGED auxVars

\* CApplication::exit called by thread t, line 76: quitFlag_ = true.
ExitCall(t, code) ==
    /\ Running
    /\ app.instance
    /\ app.thread # t
    /\ app.exiting[t] = <<>>
    /\ app' = [app EXCEPT !.quitFlag = TRUE, !.exiting[t] = <<code>>,
                           !.codes = IF app.thread # "none" THEN @ \cup {code} ELSE @]
    /\ UNCHANGED <<alive, parent, children, connections, em, log, cn, ret, fault,
                   owner, eventQueue, events, mc, promise, lastRun>>
    /\ UNCHANGED auxVars

\* Line 77: returnCode_ = returnCode.
ExitStore(t) ==
    /\ Running
    /\ app.exiting[t] # <<>>
    /\ app' = [app EXCEPT !.returnCode = app.exiting[t][1], !.exiting[t] = <<>>]
    /\ UNCHANGED <<alive, parent, children, connections, em, log, cn, ret, fault,
                   owner, eventQueue, events, mc, promise, lastRun>>
    /\ UNCHANGED auxVars

\* CApplication::exit called by the thread inside exec(), from a handler the
\* loop has called: both lines before the loop goes on.
ExitInLoop(code) ==
    /\ Running
    /\ InLoop
    /\ app' = [app EXCEPT !.quitFlag = TRUE, !.returnCode = code,
                           !.codes = @ \cup {code}]
    /\ UNCHANGED <<alive, parent, children, connections, em, log, cn, ret, fault,
                   owner, eventQueue, events, mc, promise, lastRun>>
    /\ UNCHANGED auxVars

\* CApplication::~CApplication (lines 42-50), with no thread inside exec():
\* the dispatcher is deleted and instance_ reset; eventQueue_ is destroyed as
\* a member, its elements hold plain pointers and no event is deleted.
AppDestroy ==
    /\ Running
    /\ app.instance
    /\ app.thread = "none"
    /\ app' = [app EXCEPT !.instance = FALSE, !.dispatcher = FALSE]
    /\ eventQueue' = <<>>
    /\ timerList' = <<>>
    /\ UNCHANGED <<alive, parent, children, connections, em, log, cn, ret, fault,
                   owner, events, mc, promise, lastRun>>
    /\ UNCHANGED <<postVars, dtrace, propVars, nextTimerId, tret, issued, clockVars, callVars>>

----------------------------------------------------------------------------
(* SpecEv: slots called through metacall by two threads, one of which runs  *)
(* exec(), while receivers are deleted.                                      *)

InitEv ==
    /\ InitBase
    /\ owner \in {f \in [Objects -> Threads] : f["o1"] = "t1" /\ f["o3"] = "t2"}
    /\ nextTimerId = 1

NextEv ==
    \/ Destroy("o3")
    \/ \E t \in Threads, r \in {"o2", "o3"}, type \in ConnectionType :
           Metacall(t, r, "onChanged", type, "o1")
    \/ \E t \in Threads : McReturn(t)
    \/ \E t \in Threads : ExecStart(t)
    \/ PumpSwap
    \/ PumpDispatch

SpecEv == InitEv /\ [][NextEv]_vars

----------------------------------------------------------------------------
(* Timers: CObject::startTimer / killTimer and the dispatcher's timer list  *)

\* fetch_add(1) on std::atomic<int>: two's complement, wraps without
\* undefined behaviour.
WrapInc(x) == IF x = IntMax THEN IntMin ELSE x + 1

startTimerCheckNoInterval(interval) ==
    IF ~app.instance THEN "noapp"
    ELSE IF ~app.dispatcher THEN "nodispatcher"
    ELSE "ok"

\* CObject::startTimer, lines 179-195: the early returns.
startTimerCheck(interval) ==
    IF interval < 0 THEN "negative"
    ELSE IF ~app.instance THEN "noapp"
    ELSE IF ~app.dispatcher THEN "nodispatcher"
    ELSE "ok"

\* static getCurrentTime(), lines 45-49.
getCurrentTime == now

\* struct TimerInfo; `since` is not a member: it keeps the time of the
\* registration for the properties.
TimerInfo(id, interval, r) ==
    [id |-> id, interval |-> interval, nextTimeout |-> getCurrentTime + interval,
     receiver |-> r, activated |-> FALSE, since |-> getCurrentTime]

\* EventDispatcherLinux::registerTimer: a record with this id is overwritten,
\* otherwise one is appended.  (timerSource_ is set by the constructor and
\* cleared only by the destructor, so the first line never returns.)
registerTimer(list, id, interval, r) ==
    IF \E k \in 1..Len(list) : list[k].id = id
    THEN [k \in 1..Len(list) |->
             IF list[k].id = id
             THEN [TimerInfo(id, interval, r) EXCEPT !.since = list[k].since]
             ELSE list[k]]
    ELSE Append(list, TimerInfo(id, interval, r))

\* EventDispatcherLinux::unregisterTimer
unregisterTimer(list, id) == SelectSeq(list, LAMBDA ti : ti.id # id)

\* Ids taken from the counter by calls that have not returned yet.
InFlight == {t \in Threads : tret[t].pc = "allocated"}

\* CObject::startTimer called by thread t on object o, lines 178-199: the
\* early returns, or the id taken from the counter.
StartTimer(t, o, interval) ==
    /\ Running
    /\ alive[o]
    /\ tret[t].pc = "idle"
    /\ LET why == startTimerCheck(interval)
       IN  IF why # "ok"
           THEN /\ tret' = [tret EXCEPT ![t] = [NoTimer EXCEPT !.why = why]]
                /\ UNCHANGED nextTimerId
           ELSE /\ Len(issued) + Cardinality(InFlight) < MaxTimers
                /\ tret' = [tret EXCEPT ![t] =
                               [pc |-> "allocated", id |-> nextTimerId,
                                interval |-> interval, receiver |-> o,
                                seen |-> Len(issued),
                                ret |-> tret[t].ret, why |-> "none"]]
                /\ nextTimerId' = WrapInc(nextTimerId)
    /\ UNCHANGED <<alive, parent, children, connections, em, log, cn, ret, fault>>
    /\ UNCHANGED evVars
    /\ UNCHANGED <<postVars, dtrace, propVars, timerList, issued, clockVars, callVars>>

\* Lines 201-204: registerTimer, return timerId.  The timer list has no lock:
\* when another thread is between the same two points the two registerTimer
\* calls may overlap, and then one push_back may be lost or the process die.
StartTimerReturn(t) ==
    /\ Running
    /\ tret[t].pc = "allocated"
    /\ LET c == tret[t]
           done == /\ tret' = [tret EXCEPT ![t] = [c EXCEPT !.pc = "idle", !.ret = c.id,
                                                            !.why = "ok"]]
                   /\ issued' = Append(issued, c.id)
       IN  \/ /\ app.dispatcher
              /\ done
              /\ timerList' = registerTimer(timerList, c.id, c.interval, c.receiver)
              /\ fault' = fault
           \/ /\ ~app.dispatcher   \* the dispatcher read at line 191 was deleted
              /\ done
              /\ timerList' = timerList
              /\ fault' = "use-after-free"
           \/ /\ ~app.dispatcher
              /\ fault' = "crash"
              /\ UNCHANGED <<tret, issued, timerList>>
           \/ /\ InFlight # {t}
              /\ done
              /\ timerList' = timerList
              /\ fault' = "data-race"
           \/ /\ InFlight # {t}
              /\ fault' = "crash"
              /\ UNCHANGED <<tret, issued, timerList>>
    /\ UNCHANGED <<alive, parent, children, connections, em, log, cn, ret>>
    /\ UNCHANGED evVars
    /\ UNCHANGED <<postVars, dtrace, propVars, nextTimerId, clockVars, callVars>>

\* CObject::killTimer (lines 207-226).
KillTimer(id) ==
    /\ Running
    /\ id > 0
    /\ app.instance /\ app.dispatcher
    /\ timerList' = unregisterTimer(timerList, id)
    /\ UNCHANGED <<alive, parent, children, connections, em, log, cn, ret, fault>>
    /\ UNCHANGED evVars
    /\ UNCHANGED <<postVars, dtrace, propVars, nextTimerId, tret, issued, clockVars, callVars>>

\* CApplication::setEventDispatcher (lines 80-85), with no thread inside
\* exec(): the old dispatcher is deleted with its timer list; the new one is
\* null or a fresh dispatcher.
SetEventDispatcher(present) ==
    /\ Running
    /\ app.instance
    /\ app.thread = "none"
    /\ InFlight = {}
    /\ app' = [app EXCEPT !.dispatcher = present]
    /\ timerList' = <<>>
    /\ UNCHANGED <<alive, parent, children, connections, em, log, cn, ret, fault,
                   owner, eventQueue, events, mc, promise, lastRun>>
    /\ UNCHANGED <<postVars, dtrace, propVars, nextTimerId, tret, issued, clockVars, callVars>>

----------------------------------------------------------------------------
(* EventDispatcherLinux::processEvents: the timer source and the walk over  *)
(* the activated timers                                                     *)

\* timerSourcePrepare / timerSourceCheck (lines 120-147), runWithIdlePriority
\* being false: the source is ready when a timer is due.  (The idle source is
\* never ready, lines 173-182, so runWithIdlePriority is never set.)
timerSourceCheck(list, t) == \E k \in 1..Len(list) : list[k].nextTimeout <= t

timerSourceDispatchLate(list, t) ==
    [k \in 1..Len(list) |->
        IF list[k].nextTimeout < t
        THEN [list[k] EXCEPT !.activated = TRUE, !.nextTimeout = t + list[k].interval]
        ELSE list[k]]

timerSourceDispatchNoRearm(list, t) ==
    [k \in 1..Len(list) |->
        IF list[k].nextTimeout <= t
        THEN [list[k] EXCEPT !.activated = TRUE]
        ELSE list[k]]

\* timerSourceDispatch (lines 149-160).
timerSourceDispatch(list, t) ==
    [k \in 1..Len(list) |->
        IF list[k].nextTimeout <= t
        THEN [list[k] EXCEPT !.activated = TRUE, !.nextTimeout = t + list[k].interval]
        ELSE list[k]]

\* g_main_context_iteration(mainContext_, false), line 244, as far as the
\* timer source goes: prepare, check and, when ready, dispatch.
Iteration(list, t) ==
    IF timerSourceCheck(list, t) THEN timerSourceDispatch(list, t) ELSE list

\* The TimerEvents of the walk at lines 247-253, in list order.
Fired(list) == SelectSeq(list, LAMBDA ti : ti.activated)

Delivery(ti) == [id |-> ti.id, receiver |-> ti.receiver, at |-> now]

Deliveries(list) == [k \in 1..Len(Fired(list)) |-> Delivery(Fired(list)[k])]

Deactivated(list) == [k \in 1..Len(list) |-> [list[k] EXCEPT !.activated = FALSE]]

\* EventDispatcherLinux::processEvents (lines 242-257).  CObject::timerEvent
\* is empty, so a delivery changes nothing else.  t.receiver is used as it was
\* registered: if the object has been deleted the virtual call runs on freed
\* memory or the process dies.
ProcessEvents ==
    /\ Running
    /\ app.instance /\ app.dispatcher
    /\ LET marked == Iteration(timerList, getCurrentTime)
           dead == \E k \in 1..Len(marked) :
                       marked[k].activated /\ ~alive[marked[k].receiver]
       IN  \/ /\ ~dead
              /\ Len(tlog) + Len(Fired(marked)) <= MaxFires
              /\ timerList' = Deactivated(marked)
              /\ tlog' = tlog \o Deliveries(marked)
              /\ fault' = fault
           \/ /\ dead
              /\ Len(tlog) + Len(Fired(marked)) <= MaxFires
              /\ timerList' = Deactivated(marked)
              /\ tlog' = tlog \o Deliveries(marked)
              /\ fault' = "use-after-free"
           \/ /\ dead
              /\ timerList' = marked
              /\ tlog' = tlog
              /\ fault' = "crash"
    /\ UNCHANGED <<alive, parent, children, connections, em, log, cn, ret>>
    /\ UNCHANGED evVars
    /\ UNCHANGED <<postVars, dtrace, propVars, nextTimerId, tret, issued,
                   now, stalled, callVars>>

\* One millisecond passes.  Timers that are due at this moment and have not
\* been served are remembered in `stalled`.
Tick ==
    /\ Running
    /\ now < MaxTime
    /\ now' = now + 1
    /\ stalled' = stalled \cup {timerList[k].id : k \in
                                  {j \in 1..Len(timerList) : timerList[j].nextTimeout <= now}}
    /\ UNCHANGED <<alive, parent, children, connections, em, log, cn, ret, fault>>
    /\ UNCHANGED evVars
    /\ UNCHANGED <<postVars, dtrace, propVars, timerVars, tlog, callVars>>

----------------------------------------------------------------------------
(* SpecPump: timers of o1 and o3, one at a time for each, started and       *)
(* killed by one thread, the clock, processEvents, and delete o3.           *)

\* Receiver and interval of the timers started.
PumpArgs == {<<"o1", 1>>, <<"o3", 2>>}

\* The object has no timer registered and is not starting one.
NoTimerOf(o) ==
    /\ \A k \in 1..Len(timerList) : timerList[k].receiver # o
    /\ \A t \in InFlight : tret[t].receiver # o

NextPump ==
    \/ \E a \in PumpArgs : NoTimerOf(a[1]) /\ StartTimer("t1", a[1], a[2])
    \/ StartTimerReturn("t1")
    \/ \E k \in 1..Len(issued) : KillTimer(issued[k])
    \/ Tick
    \/ ProcessEvents
    \/ Destroy("o3")

SpecPump == Init /\ [][NextPump]_vars

----------------------------------------------------------------------------
(* processEvents step by step, with timerEvent overrides that call          *)
(* killTimer and startTimer while the loop at lines 247-253 is running.     *)
(* The loop is a range-for over the vector: `end` is taken once, and the    *)
(* iterator is a pointer into the vector's storage.  vector::erase and      *)
(* push_back invalidate both; going on with them is undefined.  The build   *)
(* either keeps walking the storage as it lies (erase moved the later       *)
(* elements down one slot and left the bytes of the last one behind,        *)
(* push_back filled the next slot or moved everything to a new block and    *)
(* freed the old one), or the process dies.                                 *)

\* After std::vector reallocation the loop reads the freed block.
Moved(w) == w.mem # <<>>

\* What *it holds for the loop at position i.
WalkSlot(w, i) ==
    IF Moved(w) THEN w.mem[i]
    ELSE IF i <= Len(timerList) THEN timerList[i]
    ELSE w.stale[i - Len(timerList)]

\* Line 244, and the begin() / end() of line 247.
PumpIterate ==
    /\ Running
    /\ app.instance /\ app.dispatcher
    /\ walk.pc = "idle"
    /\ timerList' = Iteration(timerList, getCurrentTime)
    /\ walk' = [pc |-> "walk", i |-> 1, end |-> Len(timerList), stale |-> <<>>,
                mem |-> <<>>, invalid |-> FALSE, cur |-> 0,
                fired |-> LET marked == Fired(Iteration(timerList, getCurrentTime))
                          IN  {marked[k].id : k \in 1..Len(marked)},
                from |-> Len(tlog), by |-> {}]
    /\ UNCHANGED <<alive, parent, children, connections, em, log, cn, ret, fault>>
    /\ UNCHANGED evVars
    /\ UNCHANGED <<postVars, dtrace, propVars, nextTimerId, tret, issued, clockVars,
                   dret, inv, exc, pcall, exceptWalk, kills>>

\* One pass through the loop body up to the call of the handler (lines
\* 248-251), or the end of the loop (line 254).
WalkVisit ==
    /\ Running
    /\ walk.pc = "walk"
    /\ \/ /\ walk.i <= walk.end
          /\ LET ti == WalkSlot(walk, walk.i)
             IN  IF ti.activated
                 THEN /\ Len(tlog) < MaxFires
                      /\ tlog' = Append(tlog, Delivery(ti))
                      /\ IF Moved(walk)
                         THEN /\ walk' = [walk EXCEPT !.pc = "handler", !.cur = ti.id,
                                                      !.mem[walk.i].activated = FALSE]
                              /\ timerList' = timerList
                         ELSE IF walk.i <= Len(timerList)
                         THEN /\ walk' = [walk EXCEPT !.pc = "handler", !.cur = ti.id]
                              /\ timerList' = [timerList EXCEPT ![walk.i].activated = FALSE]
                         ELSE /\ walk' = [walk EXCEPT
                                             !.pc = "handler", !.cur = ti.id,
                                             !.stale[walk.i - Len(timerList)].activated = FALSE]
                              /\ timerList' = timerList
                 ELSE /\ walk' = [walk EXCEPT !.i = @ + 1]
                      /\ UNCHANGED <<tlog, timerList>>
          /\ fault' = IF walk.invalid THEN "invalid-iterator" ELSE fault
       \/ /\ walk.i > walk.end
          /\ walk' = NoWalk
          /\ fault' = IF walk.invalid THEN "invalid-iterator" ELSE fault
          /\ UNCHANGED <<tlog, timerList>>
       \/ /\ walk.invalid
          /\ fault' = "crash"
          /\ UNCHANGED <<walk, tlog, timerList>>
    /\ UNCHANGED <<alive, parent, children, connections, em, log, cn, ret>>
    /\ UNCHANGED evVars
    /\ UNCHANGED <<postVars, dtrace, propVars, nextTimerId, tret, issued, now, stalled,
                   dret, inv, exc, pcall, exceptWalk, kills>>

\* CObject::sendEvent returns to line 252.
HandlerReturn ==
    /\ Running
    /\ walk.pc = "handler"
    /\ walk' = [walk EXCEPT !.pc = "walk", !.i = @ + 1]
    /\ UNCHANGED <<alive, parent, children, connections, em, log, cn, ret, fault>>
    /\ UNCHANGED evVars
    /\ UNCHANGED <<postVars, dtrace, propVars, timerVars, clockVars,
                   dret, inv, exc, pcall, exceptWalk, kills>>

\* CObject::killTimer(id) called by the thread that pumps, between two
\* processEvents calls or from a timerEvent override (lines 207-226 with
\* unregisterTimer, 291-301).
KillFrom(id) ==
    /\ Running
    /\ walk.pc \in {"idle", "handler"}
    /\ id > 0
    /\ app.instance /\ app.dispatcher
    /\ Len(kills) < MaxKills
    /\ timerList' = unregisterTimer(timerList, id)
    /\ kills' = Append(kills, [id |-> id, at |-> Len(tlog), before |-> timerList,
                               after |-> timerList'])
    /\ walk' = IF walk.pc = "handler" /\ timerList' # timerList
               THEN [walk EXCEPT !.invalid = TRUE, !.by = @ \cup {walk.cur},
                                 !.stale = IF Moved(walk) THEN @
                                           ELSE <<timerList[Len(timerList)]>> \o @]
               ELSE walk
    /\ UNCHANGED <<alive, parent, children, connections, em, log, cn, ret, fault>>
    /\ UNCHANGED evVars
    /\ UNCHANGED <<postVars, dtrace, propVars, nextTimerId, tret, issued, clockVars,
                   dret, inv, exc, pcall, exceptWalk>>

\* CObject::startTimer(interval) called on o by the thread that pumps,
\* between two processEvents calls or from a timerEvent override (lines
\* 178-205 with registerTimer, 269-289).  push_back either has room, or
\* moves the records to a new block.
StartFrom(o, interval) ==
    /\ Running
    /\ walk.pc \in {"idle", "handler"}
    /\ alive[o]
    /\ tret["t1"].pc = "idle"
    /\ startTimerCheck(interval) = "ok"
    /\ Len(issued) < MaxTimers
    /\ nextTimerId' = WrapInc(nextTimerId)
    /\ timerList' = registerTimer(timerList, nextTimerId, interval, o)
    /\ issued' = Append(issued, nextTimerId)
    /\ tret' = [tret EXCEPT !["t1"] = [NoTimer EXCEPT !.ret = nextTimerId, !.why = "ok"]]
    /\ IF walk.pc = "handler"
       THEN \/ walk' = [walk EXCEPT !.invalid = TRUE, !.by = @ \cup {walk.cur},
                                    !.stale = IF @ = <<>> THEN @ ELSE Tail(@)]
            \/ walk' = [walk EXCEPT !.invalid = TRUE, !.by = @ \cup {walk.cur},
                                    !.mem = IF Moved(walk) THEN @
                                            ELSE timerList \o walk.stale]
       ELSE walk' = walk
    /\ UNCHANGED <<alive, parent, children, connections, em, log, cn, ret, fault>>
    /\ UNCHANGED evVars
    /\ UNCHANGED <<postVars, dtrace, propVars, clockVars,
                   dret, inv, exc, pcall, exceptWalk, kills>>

----------------------------------------------------------------------------
(* SpecWalk: one-millisecond timers of o1, o2 and o3 started and killed by  *)
(* the pumping thread, also from inside timerEvent, and the clock.          *)

NextWalk ==
    \/ \E o \in Objects : NoTimerOf(o) /\ StartFrom(o, 1)
    \/ \E k \in 1..Len(issued) : KillFrom(issued[k])
    \/ walk.pc = "idle" /\ Tick
    \/ PumpIterate
    \/ WalkVisit
    \/ HandlerReturn

SpecWalk == Init /\ [][NextWalk]_vars

----------------------------------------------------------------------------
(* SpecLoop: t1 runs exec(), t2 posts events and calls quit() and exit(),   *)
(* handlers on t1 call exit().  SpecLoopLive adds that the thread inside    *)
(* exec() keeps running.                                                    *)

ExitCodes == {5, 7}

LoopStep ==
    \/ ExecReset
    \/ PumpSwap
    \/ PumpDispatch
    \/ ExecReturn

NextLoop ==
    \/ ExecEnter("t1")
    \/ LoopStep
    \/ PostEvent("t2", "o3", "User")
    \/ Quit
    \/ \E code \in ExitCodes : ExitCall("t2", code)
    \/ ExitStore("t2")
    \/ \E code \in ExitCodes : ExitInLoop(code)

SpecLoop == Init /\ [][NextLoop]_vars

SpecLoopLive == SpecLoop /\ WF_vars(LoopStep)

----------------------------------------------------------------------------
(* SpecThrow: emissions of o1 over direct connections to o2 and o3 whose    *)
(* slots return or throw.                                                   *)

ThrowArgs == {"changed", "reset"} \X {"o2", "o3"}

NextThrow ==
    \/ \E a \in ThrowArgs :
           Connect("t1", "o1", a[1], a[2], "onChanged", kDirectConnection)
    \/ \E a \in ThrowArgs : Disconnect("o1", a[1], a[2], NullStr)
    \/ EmitStart("t1", "o1", "changed")
    \/ EmitInvokeWith(SlotOutcomes)
    \/ EmitReturn

SpecThrow == Init /\ [][NextThrow]_vars

----------------------------------------------------------------------------
(* SpecDisc: disconnect called with names, null pointers and empty strings  *)
(* on the tables connect builds for o1.                                     *)

DiscArgs ==
    {"o1", NullObj} \X {"changed", NullStr, EmptyStr} \X {"o3", NullObj}
        \X {"onChanged", NullStr, EmptyStr}

NextDisc ==
    \/ \E sig \in {"changed", "reset"}, r \in {"o2", "o3"} :
           Connect("t1", "o1", sig, r, "onChanged", kDirectConnection)
    \/ \E a \in DiscArgs : DisconnectCall(a[1], a[2], a[3], a[4])

SpecDisc == Init /\ [][NextDisc]_vars

----------------------------------------------------------------------------
(* SpecReject: postEvent called with live and null receivers, new and null  *)
(* events, before and after the application object is destroyed.            *)

RejectArgs == {"o3", NullObj} \X {PlainEvent("User"), NullEv}

NextReject ==
    \/ \E t \in Threads, a \in RejectArgs : PostCall(t, a[1], a[2])
    \/ RemovePostedEvents("o3", "None")
    \/ AppDestroy

SpecReject == Init /\ [][NextReject]_vars

----------------------------------------------------------------------------
(* make_invoker: the adapter between a std::vector<std::any> and a member   *)
(* function.                                                                *)

MaxArgs == 3

\* Largest number of registerMeta calls that store a descriptor.
MaxRegs == 3

\* Member functions handed to make_invoker: parameter types and return type.
Methods ==
    { [name |-> "setValue", params |-> <<"int">>, ret |-> "void"],
      [name |-> "setName", params |-> <<"string">>, ret |-> "void"],
      [name |-> "add", params |-> <<"int", "int">>, ret |-> "int"] }

\* std::any_cast<A>(a) throws std::bad_any_cast unless a holds an A.
CastFails(a, type) == a.type # type

\* The lambda returned by make_invoker, called with args: the size test, then
\* the casts of the arguments (all evaluated before the member function is
\* entered), then the call.  result is <<>> when the lambda is left by an
\* exception instead of a return.
make_invoker(method, args) ==
    IF Len(args) # Len(method.params)
    THEN [ran |-> FALSE, result |-> <<EmptyAny>>, exc |-> "none"]
    ELSE IF \E i \in 1..Len(args) : CastFails(args[i], method.params[i])
    THEN [ran |-> FALSE, result |-> <<>>, exc |-> "std::bad_any_cast"]
    ELSE [ran |-> TRUE,
          result |-> <<IF method.ret = "void" THEN EmptyAny
                       ELSE AnyOf(method.ret, 0)>>,
          exc |-> "none"]

\* The values held by the elements of an argument vector.
InvokeArgs == {AnyOf("int", 1), AnyOf("int", 2), AnyOf("string", "a")}

ArgLists == UNION {[1..n -> InvokeArgs] : n \in 0..MaxArgs}

\* An invoker made for method is called with args.
Invoke(method, args) ==
    /\ Running
    /\ inv' = [called |-> TRUE, method |-> method, args |-> args]
                  @@ make_invoker(method, args)
    /\ UNCHANGED <<alive, parent, children, connections, em, log, cn, ret, fault>>
    /\ UNCHANGED evVars
    /\ UNCHANGED <<postVars, dtrace, timerVars, propVars, clockVars, dret, exc, pcall, libVars>>

NextInvoke == \E method \in Methods, args \in ArgLists : Invoke(method, args)

SpecInvoke == Init /\ [][NextInvoke]_vars

----------------------------------------------------------------------------
(* MetaRegistry *)

\* The MetaObject instances handed to the registry; two of them carry the
\* same class name.
Descriptors == {"m1", "m2", "m3"}

DescriptorName(m) == IF m = "m3" THEN "Other" ELSE "TestObject"

RegistryNames == {"TestObject", "Other", "Unknown"}

\* unordered_map::emplace in place of operator[]: the first entry stays.
registerMetaKeepFirst(map, m) ==
    IF m = NoMeta \/ DescriptorName(m) \in DOMAIN map THEN map
    ELSE (DescriptorName(m) :> m) @@ map

\* MetaRegistry::registerMeta (lines 12-16): metaMap_[className()] = metaObject.
registerMeta(map, m) ==
    IF m = NoMeta THEN map ELSE (DescriptorName(m) :> m) @@ map

\* MetaRegistry::findMeta (lines 18-22).
findMeta(map, name) == IF name \in DOMAIN map THEN map[name] ELSE NoMeta

\* registerMeta called by thread t; the body runs under mutex_.
RegisterMeta(t, m) ==
    /\ m # NoMeta => Len(regs) < MaxRegs
    /\ metaMap' = registerMeta(metaMap, m)
    /\ regs' = IF m = NoMeta THEN regs ELSE Append(regs, m)
    /\ UNCHANGED <<fret, exceptReg>>
    /\ UNCHANGED coreVars

\* findMeta called by thread t; the body runs under mutex_.
FindMeta(t, name) ==
    /\ fret' = [called |-> TRUE, thread |-> t, name |-> name,
                val |-> findMeta(metaMap, name), at |-> Len(regs)]
    /\ UNCHANGED <<metaMap, regs, exceptReg>>
    /\ UNCHANGED coreVars

NextReg ==
    \/ \E t \in Threads, m \in Descriptors \cup {NoMeta} : RegisterMeta(t, m)
    \/ \E t \in Threads, name \in RegistryNames : FindMeta(t, name)

SpecReg == Init /\ [][NextReg]_vars

----------------------------------------------------------------------------
(* SpecBucket: connections made, removed one at a time by disconnect and    *)
(* all at once by the destructor's disconnectAll.                           *)

BucketConnectArgs ==
    {a \in ValidConnectArgs : a[2] = "changed" /\ a[4] = "onChanged"}

BucketDisconnectArgs == {"o1", "o2"} \X {NullStr} \X {"o3", NullObj} \X {NullStr}

NextBucket ==
    \/ \E a \in BucketConnectArgs :
           Connect("t1", a[1], a[2], a[3], a[4], kDirectConnection)
    \/ \E a \in BucketDisconnectArgs : DisconnectCall(a[1], a[2], a[3], a[4])
    \/ \E o \in Objects : Destroy(o)

SpecBucket == Init /\ [][NextBucket]_vars

----------------------------------------------------------------------------
(* SpecRemove: events posted to o2 and o3, removed from the queue at any    *)
(* moment, and pumped by the thread inside exec().                          *)

RemoveCallArgs == {<<"o3", "None">>, <<NullObj, "User">>}

NextRemove ==
    \/ \E r \in {"o2", "o3"}, type \in {"User", "Custom"} : PostEvent("t1", r, type)
    \/ \E a \in RemoveCallArgs : RemoveCall(a[1], a[2])
    \/ ExecStart("t1")
    \/ PumpSwap
    \/ PumpDispatch

SpecRemove == Init /\ [][NextRemove]_vars

----------------------------------------------------------------------------
(* ThreadPool: the worker loop of the constructor, enqueue, the destructor  *)

PoolStep(next) ==
    /\ tp' = next
    /\ UNCHANGED coreVars
    /\ UNCHANGED exceptTp

\* Line 13: std::unique_lock takes queue_mutex.
WorkerLock(x) ==
    /\ tp.w[x] = "top"
    /\ tp.mutex = "none"
    /\ PoolStep([tp EXCEPT !.mutex = x, !.w[x] = "pred"])

\* condition.wait(lock, pred), lines 14-15: pred is evaluated with the mutex
\* held; when it is false the thread goes on to wait(lock).
WorkerPred(x) ==
    /\ tp.w[x] = "pred"
    /\ PoolStep([tp EXCEPT !.w[x] = IF tp.stop \/ tp.tasks > 0 THEN "test" ELSE "block"])

\* wait(lock): the mutex is released and the thread blocks, atomically.
WorkerBlock(x) ==
    /\ tp.w[x] = "block"
    /\ PoolStep([tp EXCEPT !.mutex = "none", !.w[x] = "waiting"])

\* A notified thread takes the mutex again and evaluates pred again.
WorkerWake(x) ==
    /\ tp.w[x] = "woken"
    /\ tp.mutex = "none"
    /\ PoolStep([tp EXCEPT !.mutex = x, !.w[x] = "pred"])

\* condition_variable::wait may return without a notification.
SpuriousWake(x) ==
    /\ tp.w[x] = "waiting"
    /\ PoolStep([tp EXCEPT !.w[x] = "woken"])

\* Lines 17-22: return, or take the task at the front; the lock is released.
WorkerTest(x) ==
    /\ tp.w[x] = "test"
    /\ IF tp.stop /\ tp.tasks = 0
       THEN PoolStep([tp EXCEPT !.mutex = "none", !.w[x] = "exit"])
       ELSE PoolStep([tp EXCEPT !.mutex = "none", !.w[x] = "task", !.tasks = @ - 1])

\* Line 23: task().
WorkerRun(x) ==
    /\ tp.w[x] = "task"
    /\ PoolStep([tp EXCEPT !.w[x] = "top", !.ran = @ + 1])

WorkerStep(x) ==
    \/ WorkerLock(x)
    \/ WorkerPred(x)
    \/ WorkerBlock(x)
    \/ WorkerWake(x)
    \/ WorkerTest(x)
    \/ WorkerRun(x)

\* condition.notify_one() / notify_all(): the threads blocked in wait.
Waiting == {x \in Workers : tp.w[x] = "waiting"}

\* enqueue, thread_pool.hpp lines 29-43: the task is pushed under the mutex.
EnqueuePush ==
    /\ tp.main = "idle"
    /\ tp.mutex = "none"
    /\ ~tp.stop
    /\ tp.tasks + tp.ran + Cardinality({x \in Workers : tp.w[x] = "task"}) < MaxTasks
    /\ PoolStep([tp EXCEPT !.tasks = @ + 1, !.main = "pushed"])

\* enqueue, line 44: condition.notify_one().
EnqueueNotify ==
    /\ tp.main = "pushed"
    /\ \/ /\ Waiting = {}
          /\ PoolStep([tp EXCEPT !.main = "idle"])
       \/ \E x \in Waiting : PoolStep([tp EXCEPT !.main = "idle", !.w[x] = "woken"])

\* ~ThreadPool, line 30: stop.store(true); queue_mutex is not taken.
DtorStore ==
    /\ tp.main = "idle"
    /\ PoolStep([tp EXCEPT !.stop = TRUE, !.main = "notify"])

\* Line 31: condition.notify_all().
DtorNotify ==
    /\ tp.main = "notify"
    /\ PoolStep([tp EXCEPT !.main = "join",
                           !.w = [x \in Workers |->
                                     IF tp.w[x] = "waiting" THEN "woken" ELSE tp.w[x]]])

\* Lines 32-36: the joins return once every worker thread has ended.
DtorJoin ==
    /\ tp.main = "join"
    /\ \A x \in Workers : tp.w[x] = "exit"
    /\ PoolStep([tp EXCEPT !.main = "done"])

DtorStep == DtorStore \/ DtorNotify \/ DtorJoin

----------------------------------------------------------------------------
(* SpecPool: a pool of two workers is given tasks and destroyed.            *)
(* SpecPoolLive adds fair scheduling: a worker or the destructor that can   *)
(* take its next step does take it; a wait is not assumed to return         *)
(* without a notification.                                                  *)

NextPool ==
    \/ \E x \in Workers : WorkerStep(x)
    \/ \E x \in Workers : SpuriousWake(x)
    \/ EnqueuePush
    \/ EnqueueNotify
    \/ DtorStep

SpecPool == Init /\ [][NextPool]_vars

SpecPoolLive ==
    /\ SpecPool
    /\ \A x \in Workers : WF_vars(WorkerStep(x))
    /\ WF_vars(EnqueueNotify)
    /\ WF_vars(DtorNotify \/ DtorJoin)

----------------------------------------------------------------------------
(* ObjectPool<T>: constructor, acquire, release, grow.  An object is the    *)
(* number of the make_unique call that made it.                             *)

GrowthPolicy == {"Multiplicative", "Additive", "Fixed"}

\* make_unique<T>() n times, pushed onto objects_.
PushNew(pool, n) ==
    [pool EXCEPT !.objects = @ \o [k \in 1..n |-> pool.made_count + k],
                 !.made_count = @ + n]

\* ObjectPool::ObjectPool (lines 48-63).
ObjectPool(initial_size, growth_policy, growth_size) ==
    PushNew([made |-> TRUE, growth_policy |-> growth_policy,
             growth_size |-> growth_size, objects |-> <<>>, active_count |-> 0,
             made_count |-> 0, held |-> {}],
            initial_size)

\* The product of line 241 in size_t: growth_size_ - 1 wraps to 2^64 - 1 when
\* growth_size_ is 0, and the product is then 2^64 - current_size.
Wraps(pool, current_size) ==
    pool.growth_policy = "Multiplicative" /\ pool.growth_size = 0 /\ current_size > 0

\* new_objects of ObjectPool::grow (lines 236-251), when it does not wrap.
NewObjects(pool, current_size) ==
    IF pool.growth_policy = "Multiplicative" THEN current_size * (pool.growth_size - 1)
    ELSE pool.growth_size

\* ObjectPool::grow (lines 233-260): false under the Fixed policy; otherwise
\* new_objects are made and true is returned, also when new_objects is 0.
\* The wrapped product is beyond vector::max_size(): reserve throws.
grow(pool) ==
    LET current_size == Len(pool.objects) + pool.active_count
    IN  IF pool.growth_policy = "Fixed" THEN [ok |-> FALSE, exc |-> "none", pool |-> pool]
        ELSE IF Wraps(pool, current_size)
        THEN [ok |-> FALSE, exc |-> "std::length_error", pool |-> pool]
        ELSE [ok |-> TRUE, exc |-> "none", pool |-> PushNew(pool, NewObjects(pool, current_size))]

\* The pool is constructed.
PoolConstruct(initial_size, growth_policy, growth_size) ==
    /\ ~op.made
    /\ op' = ObjectPool(initial_size, growth_policy, growth_size)
    /\ UNCHANGED <<oret, fault>>
    /\ UNCHANGED <<alive, parent, children, connections, em, log, cn, ret>>
    /\ UNCHANGED evVars
    /\ UNCHANGED <<postVars, dtrace, timerVars, propVars, clockVars, dret, inv, exc, pcall>>
    /\ UNCHANGED exceptOp

\* ObjectPool::acquire called by thread t (lines 99-117), under mutex_.
\* objects_.back() and pop_back() on an empty vector are undefined: the call
\* returns whatever lies before the storage, or the process dies.  After
\* that the vector's size has gone below zero and the pool is followed no
\* further.
Acquire(t) ==
    /\ Running
    /\ fault = "none"
    /\ op.made
    /\ LET g == IF op.objects = <<>> THEN grow(op)
                ELSE [ok |-> TRUE, exc |-> "none", pool |-> op]
           pool == g.pool
           call == [called |-> TRUE, thread |-> t, held |-> {h[2] : h \in op.held},
                    exc |-> g.exc, emptied |-> FALSE, val |-> 0]
       IN  /\ pool.made_count <= MaxObjects
           /\ IF ~g.ok
              THEN /\ oret' = call
                   /\ op' = op
                   /\ fault' = fault
              ELSE IF pool.objects = <<>>
              THEN \/ /\ oret' = [call EXCEPT !.emptied = TRUE, !.val = -1]
                      /\ op' = [pool EXCEPT !.active_count = @ + 1]
                      /\ fault' = "empty-vector"
                   \/ /\ oret' = oret
                      /\ op' = op
                      /\ fault' = "crash"
              ELSE LET obj == pool.objects[Len(pool.objects)]
                   IN  /\ oret' = [call EXCEPT !.val = obj]
                       /\ op' = [pool EXCEPT
                                    !.objects = SubSeq(@, 1, Len(@) - 1),
                                    !.active_count = @ + 1,
                                    !.held = @ \cup {<<t, obj>>}]
                       /\ fault' = fault
    /\ UNCHANGED <<alive, parent, children, connections, em, log, cn, ret>>
    /\ UNCHANGED evVars
    /\ UNCHANGED <<postVars, dtrace, timerVars, propVars, clockVars, dret, inv, exc, pcall>>
    /\ UNCHANGED exceptOp

\* ObjectPool::release(obj) called by the thread that holds obj (lines
\* 124-137).
Release(t, obj) ==
    /\ Running
    /\ fault = "none"
    /\ op.made
    /\ <<t, obj>> \in op.held
    /\ op' = [op EXCEPT !.objects = Append(@, obj), !.active_count = @ - 1,
                        !.held = @ \ {<<t, obj>>}]
    /\ UNCHANGED <<oret, fault>>
    /\ UNCHANGED <<alive, parent, children, connections, em, log, cn, ret>>
    /\ UNCHANGED evVars
    /\ UNCHANGED <<postVars, dtrace, timerVars, propVars, clockVars, dret, inv, exc, pcall>>
    /\ UNCHANGED exceptOp

----------------------------------------------------------------------------
(* SpecObj: a pool of every policy, growth size and initial size within the *)
(* bounds, used by two threads.                                             *)

NextObj ==
    \/ \E n \in 0..MaxInitial, gp \in GrowthPolicy, g \in 0..MaxGrowth :
           PoolConstruct(n, gp, g)
    \/ \E t \in Threads : Acquire(t)
    \/ \E t \in Threads, obj \in 1..MaxObjects : Release(t, obj)

SpecObj == Init /\ [][NextObj]_vars

----------------------------------------------------------------------------
(* IPCImplement: sendMessage, senderThreadFunc, stop; IPCSharedMemory:      *)
(* WritePacket, and ReadPacket as run by the other side.  A message is its  *)
(* number in the order of acceptance and the size of its packet.            *)

\* senderThreadFunc, line 190.
max_retries == 3

\* senderThreadFunc, line 247.
SendQueueCap == 1000

IpcStep(next) ==
    /\ ipc' = next
    /\ UNCHANGED coreVars
    /\ UNCHANGED exceptIpc

\* available_space of IPCSharedMemory::WritePacket (lines 228-248).
AvailableSpace(write_pos, read_pos) ==
    IF write_pos >= read_pos
    THEN IF read_pos = 0 THEN ShmBufferSize - write_pos
         ELSE ShmBufferSize - write_pos + read_pos - 1
    ELSE read_pos - write_pos - 1

\* IPCSharedMemory::WritePacket (lines 171-310): whether the packet is
\* written.  The write semaphore starts at 1 and is taken and given back
\* within the call, and the sender thread is the only one that takes it.
WritePacket(c, packet_size) ==
    /\ packet_size <= ShmBufferSize
    /\ AvailableSpace(c.write_pos, c.read_pos) > packet_size

\* IPCImplement::sendMessage (lines 142-159).
SendMessage(size) ==
    /\ ipc.running
    /\ ipc.accepted < MaxMsgs
    /\ IpcStep([ipc EXCEPT
           !.send_queue = Append(@, [id |-> ipc.accepted + 1, size |-> size]),
           !.accepted = @ + 1])

\* senderThreadFunc, lines 192-216: the loop test, the wait and the pop.
SenderTake ==
    /\ ipc.sender.pc = "wait"
    /\ IF ~ipc.running
       THEN IpcStep([ipc EXCEPT !.sender.pc = "stopped"])
       ELSE /\ ipc.send_queue # <<>>
            /\ IpcStep([ipc EXCEPT
                   !.send_queue = Tail(@),
                   !.sender = [pc |-> "write", retry |-> 0,
                               message |-> <<Head(ipc.send_queue)>>]])

\* senderThreadFunc, lines 219-239: one pass of the retry loop.  A pass that
\* finds running_ false, or the last failing pass, leaves the loop with
\* write_success false.
SenderWrite ==
    /\ ipc.sender.pc = "write"
    /\ LET m == ipc.sender.message[1]
       IN  IF ~ipc.running
           THEN IpcStep([ipc EXCEPT !.sender.pc = "failed"])
           ELSE IF WritePacket(ipc, m.size)
           THEN IpcStep([ipc EXCEPT
                    !.write_pos = (@ + m.size) % ShmBufferSize,
                    !.unread = Append(@, m),
                    !.written = Append(@, m.id),
                    !.sender = [pc |-> "wait", retry |-> 0, message |-> <<>>]])
           ELSE IpcStep([ipc EXCEPT
                    !.sender.retry = @ + 1,
                    !.sender.pc = IF ipc.sender.retry + 1 < max_retries
                                  THEN "write" ELSE "failed"])

\* senderThreadFunc, lines 241-254: the message that was not written is pushed
\* onto send_queue_ again when the side still runs and the queue is short of
\* its cap.
SenderRequeue ==
    /\ ipc.sender.pc = "failed"
    /\ IpcStep([ipc EXCEPT
           !.send_queue = IF ipc.running /\ Len(@) < SendQueueCap
                          THEN Append(@, ipc.sender.message[1]) ELSE @,
           !.sender = [pc |-> "wait", retry |-> 0, message |-> <<>>]])

\* IPCSharedMemory::ReadPacket run by the other side (lines 312-480): the
\* oldest unread packet is taken and the read position moves past it.
ReadPacket ==
    /\ ipc.unread # <<>>
    /\ IpcStep([ipc EXCEPT
           !.read_pos = (@ + Head(ipc.unread).size) % ShmBufferSize,
           !.unread = Tail(@)])

\* IPCImplement::stop (lines 66-70): running_ goes from true to false.
IpcStop ==
    /\ ipc.running
    /\ IpcStep([ipc EXCEPT !.running = FALSE])

----------------------------------------------------------------------------
(* SpecIpc: one side sends up to MaxMsgs messages while the other side      *)
(* reads.                                                                   *)

NextIpc ==
    \/ \E size \in 1..MaxPacket : SendMessage(size)
    \/ SenderTake
    \/ SenderWrite
    \/ SenderRequeue
    \/ ReadPacket
    \/ IpcStop

SpecIpc == Init /\ [][NextIpc]_vars

----------------------------------------------------------------------------
(* SpecTimer: timers started by two threads and killed, with and without    *)
(* application and dispatcher, in a fresh process and in one whose counter  *)
(* is two ids away from INT_MAX.                                            *)

InitTimer ==
    /\ InitBase
    /\ owner = [o \in Objects |-> "t1"]
    /\ nextTimerId \in {1, IntMax - 1}

Intervals == {-1, 0, 5}

NextTimer ==
    \/ \E t \in Threads, i \in Intervals : StartTimer(t, "o1", i)
    \/ \E t \in Threads : StartTimerReturn(t)
    \/ \E k \in 1..Len(issued) : KillTimer(issued[k])
    \/ \E present \in BOOLEAN : SetEventDispatcher(present)
    \/ AppDestroy

SpecTimer == InitTimer /\ [][NextTimer]_vars

----------------------------------------------------------------------------
(* SpecPost: events posted by two threads, removed from the queue, pumped  *)
(* by the thread inside exec(), and the application torn down.              *)

PostArgs ==
    (Threads \X {"o3"} \X {"User", "DeferredDelete"})
        \cup {<<"t1", "o2", "User">>, <<"t1", NullObj, "User">>}

RemoveArgs == {<<"o3", "None">>, <<NullObj, "DeferredDelete">>}

NextPost ==
    \/ \E a \in PostArgs : PostEvent(a[1], a[2], a[3])
    \/ \E a \in RemoveArgs : RemovePostedEvents(a[1], a[2])
    \/ ExecStart("t1")
    \/ PumpSwap
    \/ PumpDispatch
    \/ Quit
    \/ ExecReturn
    \/ AppDestroy

SpecPost == Init /\ [][NextPost]_vars

----------------------------------------------------------------------------
(* SpecTree: objects constructed, reparented and deleted.                   *)

NextTree ==
    \/ \E o \in Objects, p \in Objects \cup {NullObj} : SetParent(o, p)
    \/ \E o \in Objects, p \in Objects \cup {NullObj} : Construct("t1", o, p)
    \/ \E o \in Objects : Destroy(o)
    \/ Connect("t1", "o1", "changed", "o3", "onChanged", kDirectConnection)

SpecTree == Init /\ [][NextTree]_vars

----------------------------------------------------------------------------
(* SpecProp: properties of an Emitter and of a Handler written and read.    *)

PropArgs == {"value", "title", "level"}

AnyArgs == {AnyOf("int", 1), AnyOf("string", "a")}

NextProp ==
    \/ \E o \in {"o1", "o2"}, name \in PropArgs, v \in AnyArgs : SetProperty(o, name, v)
    \/ \E o \in {"o1", "o2"}, name \in PropArgs : GetProperty(o, name)

SpecProp == Init /\ [][NextProp]_vars

----------------------------------------------------------------------------
(* SpecAuto: signals emitted by either thread over auto and direct          *)
(* connections, to receivers living in the sender's thread or the other.    *)

NextAuto ==
    \/ \E r \in {"o2", "o3"}, type \in {kAutoConnection, kDirectConnection} :
           Connect("t1", "o1", "changed", r, "onChanged", type)
    \/ \E t \in Threads : EmitStart(t, "o1", "changed")
    \/ EmitInvoke
    \/ EmitReturn

SpecAuto == InitEv /\ [][NextAuto]_vars

----------------------------------------------------------------------------
(* SpecEmit: signals emitted by either thread over queued and blocking      *)
(* connections, to receivers living in the emitter's thread or the other.    *)

NextEmit ==
    \/ \E r \in {"o2", "o3"}, type \in {kQueuedConnection, kBlockingConnection} :
           Connect("t1", "o1", "changed", r, "onChanged", type)
    \/ \E t \in Threads : EmitStart(t, "o1", "changed")
    \/ EmitInvoke
    \/ EmitReturn

SpecEmit == InitEv /\ [][NextEmit]_vars

----------------------------------------------------------------------------
(* Properties *)

ToSet(seq) == {seq[k] : k \in 1..Len(seq)}

AllConnections == UNION {ToSet(connections[s]) : s \in DOMAIN connections}

\* C1: an emission over N matching enabled connections invokes exactly N
\* slots, one per connection, in the order the connections were inserted:
\* the slots run so far are always a prefix of the sender's matching list as
\* it stood at the emit, and when the loop is over they are the whole list.
C1_EmitInInsertionOrder ==
    em.pc = "run" =>
        /\ Len(log) <= Len(em.expect)
        /\ log = SubSeq(em.expect, 1, Len(log))
        /\ em.i >= Len(LoopRange(em)) => Len(log) = Len(em.expect)

C1_Witness ==
    /\ em.pc = "run"
    /\ em.i >= Len(LoopRange(em))
    /\ Len(log) = 2
    /\ log[1].receiver # log[2].receiver
    /\ fault = "none"

\* C2: once an object has been deleted, no bucket is keyed by it and no
\* connection names it as sender or receiver.
C2_NoConnectionOfDestroyed ==
    \A o \in Objects :
        ~alive[o] =>
            /\ o \notin DOMAIN connections
            /\ \A c \in AllConnections : c.sender # o /\ c.receiver # o

C2_Witness ==
    /\ ~alive["o2"] /\ ~alive["o3"] /\ alive["o1"]
    /\ em.pc = "run"
    /\ \E k \in 1..Len(em.activeConnections) :
           em.activeConnections[k].receiver = "o3"
    /\ \E k \in 1..Len(em.activeConnections) :
           em.activeConnections[k].receiver = "o2"

\* C3: no slot is ever invoked on a receiver that has already been deleted.
C3_NoSlotOnDestroyedReceiver == fault = "none"

\* C4: whatever happens to the table while an emission runs, the slots it has
\* invoked together with those it is still going to invoke are exactly the
\* matching enabled connections present when it started.
C4_EmissionUsesStartSet ==
    em.pc = "run" =>
        ToSet(log) \cup {LoopRange(em)[k] : k \in (em.i + 1)..Len(LoopRange(em))}
            = ToSet(em.expect)

C4_Witness ==
    /\ em.pc = "run"
    /\ em.i >= Len(LoopRange(em))
    /\ Len(log) = 2
    /\ em.sender \in Objects
    /\ MatchingEnabled(connections, em.sender, em.signal) # em.expect
    /\ fault = "none"

NoDuplicateFourTuple ==
    \A s \in DOMAIN connections :
        \A i, j \in 1..Len(connections[s]) :
            SameFourTuple(connections[s][i], connections[s][j]) => i = j

Present(conns, k) == \E c \in UNION {ToSet(conns[s]) : s \in DOMAIN conns} : SameFourTuple(c, k)

\* C5: the table never holds two connections with the same four-tuple; a
\* connect that reaches the lock while its four-tuple is present returns false
\* and changes nothing (whatever its delivery mode), and one that returns
\* true inserted a four-tuple that was absent.
C5_UniqueFourTuple ==
    /\ []NoDuplicateFourTuple
    /\ [][\A t \in Threads :
            (cn[t].pc = "validated" /\ cn'[t].pc = "idle") =>
                IF Present(connections, cn[t].conn)
                THEN ret'[t].val = FALSE /\ connections' = connections
                ELSE ret'[t].val = TRUE /\ Present(connections', cn[t].conn)]_vars

C5_Witness ==
    \E t, u \in Threads :
        /\ t # u
        /\ ret[t].why = "duplicate" /\ ret[t].raced /\ ~ret[t].val
        /\ ret[u].why = "inserted" /\ ret[u].val

RECURSIVE ClassChain(_)
ClassChain(c) == IF c = NoMeta THEN {} ELSE {c} \cup ClassChain(MetaParent(c))

InvalidConnectArgs(s, sig, r, slot) ==
    \/ s = NullObj \/ r = NullObj \/ sig = NullStr \/ slot = NullStr
    \/ \A c \in ClassChain(metaObject(s)) : sig \notin MetaSignals(c)
    \/ \A c \in ClassChain(metaObject(r)) : slot \notin MetaMethods(c)

InvalidArgSet == {a \in ConnectArgs : InvalidConnectArgs(a[1], a[2], a[3], a[4])}

\* C6: a connect with a null sender, receiver, signal or slot, with a signal
\* not declared on the sender's class chain or with a slot not declared on the
\* receiver's class chain returns false and leaves the table unchanged.
C6_InvalidConnectRejected ==
    [][\A a \in InvalidArgSet :
          Connect("t1", a[1], a[2], a[3], a[4], kDirectConnection)
          => (ret'["t1"].val = FALSE /\ connections' = connections)]_vars

C6_Witness ==
    /\ ret["t1"].why = "noslot"
    /\ ~ret["t1"].val
    /\ TableSize(connections) > 0

\* The step of a running emission that handles the connection at position
\* em.i + 1 of the snapshot and moves on to the next one.
EmitStepOver(conn) ==
    /\ em.pc = "run"
    /\ em'.pc = "run"
    /\ em'.i = em.i + 1
    /\ conn = LoopRange(em)[em.i + 1]

\* C7: emitting over a queued connection does not run the slot inside emit;
\* the step posts exactly one meta-call event for the receiver, naming the
\* slot, to the posted-event queue, and the slot is left to the event loop.
C7_QueuedEmitPostsEvent ==
    [][em.pc = "run" =>
          \A conn \in ToSet(LoopRange(em)) :
             (EmitStepOver(conn) /\ conn.type = kQueuedConnection)
             => /\ log' = log
                /\ eventQueue' = postEvent(eventQueue, conn.receiver,
                                           New(MetaCallEvent(conn.slot, "none")))]_vars

\* C8: whenever the event hook of an object has run for a posted event, the
\* thread that ran it is the object's owning thread.
C8_DispatchOnOwningThread ==
    lastRun.via = "event" => lastRun.thread = owner[lastRun.receiver]

\* C9: a blocking delivery made from a thread other than the receiver's owning
\* thread returns to the emitter only after the receiver's event hook has run
\* the slot and signalled the completion handle of that delivery.
C9_BlockingWaitsForHook ==
    [][/\ em.pc = "run" =>
          \A conn \in ToSet(LoopRange(em)) :
             (/\ EmitStepOver(conn)
              /\ conn.type = kBlockingConnection
              /\ owner[conn.receiver] # em.thread)
             => (/\ promise[em.thread] \in Signalled
                 /\ lastRun = [receiver |-> conn.receiver,
                               thread |-> lastRun.thread, via |-> "event"])
       /\ \A t \in Threads :
             (mc[t].pc = "wait" /\ mc'[t].pc = "idle")
             => promise[t] \in Signalled]_vars

\* C10: while a thread waits in a blocking delivery whose receiver has been
\* destroyed, the completion handle of the delivery is signalled, so that the
\* wait can end.
C10_DestroyedReceiverUnblocks ==
    \A t \in Threads :
        (mc[t].pc = "wait" /\ ~alive[mc[t].receiver]) => promise[t] \in Signalled

\* C11: a thread never waits on the completion handle of a blocking delivery
\* whose receiver it owns itself: such a delivery is made as a direct call.
C11_NoWaitOnOwnReceiver ==
    \A t \in Threads : mc[t].pc = "wait" => owner[mc[t].receiver] # t

\* Number of times event id was handed to sendEvent.
Delivered(id) == Cardinality({k \in 1..Len(dlog) : dlog[k] = id})

\* C12: once the application is torn down, every event that was handed to
\* postEvent has been delivered at most once and deleted exactly once.
C12_DeliveredOnceDestroyedOnce ==
    ~app.instance =>
        \A id \in 1..Len(evs) : Delivered(id) <= 1 /\ evs[id].deleted = 1

C14_NothingAfterDeferredDelete ==
    \A i, j \in 1..Len(dlog) :
        (i < j /\ evs[dlog[i]].type = "DeferredDelete")
        => evs[dlog[j]].receiver # evs[dlog[i]].receiver

Count(seq, x) == Cardinality({k \in 1..Len(seq) : seq[k] = x})

\* C15: every live object with a parent is exactly once in the child list of
\* that parent and in no other child list; a live object without parent is
\* in no child list.
C15_ChildListsMatchParents ==
    \A c \in Objects :
        alive[c] =>
            /\ parent[c] # NullObj => Count(children[parent[c]], c) = 1
            /\ \A q \in Objects : q # parent[c] => Count(children[q], c) = 0

C15_Witness ==
    /\ \A o \in Objects : alive[o]
    /\ parent = [o \in Objects |-> IF o = "o1" THEN NullObj ELSE "o1"]
    /\ children["o1"] = <<"o3", "o2">>
    /\ children["o2"] = <<>>

Pos(T, e) == CHOOSE k \in 1..Len(T) : T[k] = e

\* S and the objects in the child lists of the objects of S.
Kids(S) == S \cup {c \in Objects : \E x \in S : InSeq(children[x], c)}

\* o and everything attached below it.
Descendants(o) == Kids(Kids(Kids({o})))

DtorSteps(x) == <<<<"disconnectAll", x>>, <<"setParent", x>>, <<"freed", x>>>>

\* C16: a delete of o destroys o and everything attached below it, each
\* object once and nothing else; every destructor first removes the
\* object's connections, then detaches it, then deletes its children, later
\* inserted ones first, each child wholly before the next, and ends after them.
C16_DestroyOrder ==
    [][\A o \in Objects :
          (alive[o] /\ ~alive'[o] /\ dtrace' # <<>> /\ dtrace'[1] = <<"disconnectAll", o>>)
          => LET T == dtrace'
                 D == Descendants(o)
             IN  /\ \A x \in D : alive[x]
                 /\ \A x \in Objects : alive'[x] = (alive[x] /\ x \notin D)
                 /\ \A x \in D : \A k \in 1..3 : Count(T, DtorSteps(x)[k]) = 1
                 /\ \A x \in D :
                       /\ Pos(T, DtorSteps(x)[1]) < Pos(T, DtorSteps(x)[2])
                       /\ Pos(T, DtorSteps(x)[2]) < Pos(T, DtorSteps(x)[3])
                 /\ Len(T) = 3 * Cardinality(D)
                 /\ \A x \in D : \A i, j \in 1..Len(children[x]) :
                       LET a == children[x][i]
                           b == children[x][j]
                       IN  /\ (a # o) =>
                                 /\ Pos(T, DtorSteps(x)[2]) < Pos(T, DtorSteps(a)[1])
                                 /\ Pos(T, DtorSteps(a)[3]) < Pos(T, DtorSteps(x)[3])
                           /\ (i < j /\ a # o /\ b # o) =>
                                 Pos(T, DtorSteps(b)[3]) < Pos(T, DtorSteps(a)[1])
                 /\ \A x \in D :
                       /\ x \notin DOMAIN connections'
                       /\ \A c \in AllConnections' : c.sender # x /\ c.receiver # x
                       /\ parent'[x] = NullObj /\ children'[x] = <<>>]_vars

C16_Witness ==
    /\ \A o \in Objects : ~alive[o]
    /\ ret["t1"].val
    /\ connections = <<>>
    /\ dtrace = <<<<"disconnectAll", "o1">>, <<"setParent", "o1">>,
                  <<"disconnectAll", "o3">>, <<"setParent", "o3">>, <<"freed", "o3">>,
                  <<"disconnectAll", "o2">>, <<"setParent", "o2">>, <<"freed", "o2">>,
                  <<"freed", "o1">>>>

\* What the last setProperty call followed by a property call of the same
\* name on the same object shows of a round trip: the call returned true
\* without an exception and the read gives the value written.
RoundTripKept ==
    /\ pret.set.ret = "true"
    /\ pret.set.exc = "none"
    /\ property(props, pret.set.obj, pret.set.name) = pret.set.arg
    /\ (pret.get.obj = pret.set.obj /\ pret.get.name = pret.set.name)
           => pret.get.val = pret.set.arg

\* Property name of class c is not redeclared by a class of o's chain that
\* derives from c.
NotRedeclared(o, c, name) ==
    \A d \in ClassesFrom(metaObject(o)) :
        (d # c /\ c \in ClassesFrom(d)) => name \notin PropertyNames(d)

\* C17 as stated: for every property declared by a class of the object's
\* chain, the name is found, and writing a value of that property's declared
\* type and reading the name back gives the value written.
C17_DeclaredRoundTrip ==
    pret.set.obj # NullObj =>
        \A c \in ClassesFrom(metaObject(pret.set.obj)) :
            (/\ pret.set.name \in PropertyNames(c)
             /\ pret.set.arg.type = typeName(c, pret.set.name))
            => /\ findProperty(metaObject(pret.set.obj), pret.set.name) # NoMeta
               /\ RoundTripKept

\* C17, amended: for every property declared by a class of the object's chain
\* and not redeclared under the same name by a more derived class of the
\* chain, the name finds that property, and writing a value of its declared
\* type and reading the name back gives the value written.
C17_VisibleRoundTrip ==
    pret.set.obj # NullObj =>
        \A c \in ClassesFrom(metaObject(pret.set.obj)) :
            (/\ pret.set.name \in PropertyNames(c)
             /\ NotRedeclared(pret.set.obj, c, pret.set.name)
             /\ pret.set.arg.type = typeName(c, pret.set.name))
            => /\ findProperty(metaObject(pret.set.obj), pret.set.name) = c
               /\ RoundTripKept

C17_Witness ==
    /\ pret.set = [obj |-> "o2", name |-> "value", arg |-> AnyOf("int", 1),
                   before |-> AnyOf("int", 0), ret |-> "true", exc |-> "none"]
    /\ pret.get = [obj |-> "o2", name |-> "value", val |-> AnyOf("int", 1)]

\* C18: setProperty on a declared property with a value of another type
\* returns false, raises no exception and leaves the property's value as it
\* was.
C18_WrongTypeReturnsFalse ==
    pret.set.obj # NullObj =>
        LET prop == findProperty(metaObject(pret.set.obj), pret.set.name)
        IN  (prop # NoMeta /\ pret.set.arg.type # typeName(prop, pret.set.name))
            => /\ pret.set.ret = "false"
               /\ pret.set.exc = "none"
               /\ property(props, pret.set.obj, pret.set.name) = pret.set.before

\* C19: every successful startTimer call returns a positive id, greater than
\* every id that had been returned when the call took its own, different from
\* the ids other threads hold, and never one that was handed out already
\* (killed or not).
C19_TimerIdsFreshAndGrowing ==
    /\ \A k \in 1..Len(issued) : issued[k] > 0
    /\ \A i, j \in 1..Len(issued) : i # j => issued[i] # issued[j]
    /\ \A t \in InFlight :
          /\ tret[t].id > 0
          /\ \A k \in 1..Len(issued) : tret[t].id # issued[k]
          /\ \A k \in 1..tret[t].seen : tret[t].id > issued[k]
          /\ \A u \in InFlight \ {t} : tret[u].id # tret[t].id

\* The checks of startTimer that refuse the call.
Refused(interval) == interval < 0 \/ ~app.instance \/ ~app.dispatcher

\* C20: a startTimer call with a negative interval, without an application
\* instance or without a dispatcher returns 0, takes no id from the counter
\* and registers no timer record.
C20_RefusedStartTimerHasNoEffect ==
    [][\A t \in Threads, i \in Intervals :
          (StartTimer(t, "o1", i) /\ Refused(i))
              => /\ tret'[t].pc = "idle"
                 /\ tret'[t].ret = 0
                 /\ UNCHANGED <<nextTimerId, timerList, issued>>]_vars

\* Both threads were refused, one for a missing application and one for a
\* negative interval, after one timer had been started: its id stays the
\* only one issued and the counter stays where that call left it.
C20_Witness ==
    /\ fault = "none"
    /\ tret["t1"].why = "noapp" /\ tret["t1"].ret = 0
    /\ tret["t2"].why = "negative" /\ tret["t2"].ret = 0
    /\ issued = <<1>>
    /\ nextTimerId = 2

\* A step of processEvents: every other action of SpecPump leaves tlog alone
\* or leaves the clock and the timer list alone.
Pumped == ProcessEvents /\ fault' = "none"

\* The TimerEvents a step has delivered for timer id.
NewFires(id) ==
    Cardinality({k \in Len(tlog) + 1..Len(tlog') : tlog'[k].id = id})

C22_NoTimerOfDestroyed ==
    /\ \A k \in 1..Len(timerList) : alive[timerList[k].receiver]
    /\ fault = "none"

\* The TimerEvents delivered for timer id at the times a..b.
Fires(id, a, b) ==
    Cardinality({k \in 1..Len(tlog) : tlog[k].id = id /\ a <= tlog[k].at /\ tlog[k].at <= b})

\* The windows [a, b] in which the timer record ti has been registered.
Windows(ti) == {w \in (ti.since..now) \X (ti.since..now) : w[1] <= w[2]}

AskedToQuit == app.thread # "none" /\ (app.quits \/ app.codes # {})

\* C24: once quit() or exit(code) has been called after exec() was entered,
\* from any thread, exec() returns.
C24_QuitEndsExec == AskedToQuit ~> app.thread = "none"

\* C25: exec() returns the code passed to the exit(code) call that ended the
\* loop, and 0 when the loop was ended by quit() without an exit call in that
\* run.  (Read as: the value returned is one of the codes passed to exit()
\* during the run, or 0 if quit() was called during the run.)
C25_ExecReturnsExitCode ==
    (app.thread = "none" /\ app.ret \notin {<<>>, <<-1>>}) =>
        app.ret[1] \in app.codes \cup (IF app.quits THEN {0} ELSE {})

\* C26: a slot that fails is confined to its connection: the emission goes on
\* over the later connections of its snapshot, in order, and no exception
\* leaves emitSignal.
C26_SlotFailureConfined ==
    /\ exc = "none"
    /\ (em.pc = "run" /\ fault = "none") =>
           /\ log = SubSeq(LoopRange(em), 1, em.i)
           /\ em.failed \subseteq 1..em.i

\* The slot of the first of two connections has thrown and the slot of the
\* second one has been invoked after it.
C26_Witness ==
    /\ em.pc = "run"
    /\ Len(LoopRange(em)) = 2
    /\ em.i = 2
    /\ em.failed = {1}
    /\ log = LoopRange(em)
    /\ fault = "none"

\* C27: a slot that fails while the pump dispatches its MetaCall event never
\* aborts the loop: no exception leaves exec(), every event handed to
\* sendEvent is destroyed, and none of the batch is dropped.
C27_SlotFailureKeepsLoop ==
    /\ exc = "none"
    /\ \A k \in 1..Len(dlog) : evs[dlog[k]].deleted >= 1
    /\ app.thread = "none" => events = <<>>

\* A null or empty name, or a null receiver, stands for any.
AnyName(x) == x \in {NullStr, EmptyStr}

ClaimedMatch(conn, sig, r, slot) ==
    /\ AnyName(sig) \/ conn.signal = sig
    /\ r = NullObj \/ conn.receiver = r
    /\ AnyName(slot) \/ conn.slot = slot

\* The positions of the sender's list that the call is to match.
ClaimedHits(d) ==
    IF d.sender \in DOMAIN d.before
    THEN {i \in 1..Len(d.before[d.sender]) :
             ClaimedMatch(d.before[d.sender][i], d.signal, d.receiver, d.slot)}
    ELSE {}

\* The sender's list in a table, empty when the sender has no entry.
ListOf(table, s) == IF s \in DOMAIN table THEN table[s] ELSE <<>>

\* C28: disconnect takes a null or empty signal, receiver or slot as a
\* wildcard, removes exactly the earliest-inserted connection of the sender
\* that matches and returns true; when nothing matches it returns false and
\* leaves the table as it was.
C28_DisconnectFirstMatch ==
    dret.called =>
        LET hits == ClaimedHits(dret)
        IN  IF hits = {}
            THEN ~dret.val /\ dret.after = dret.before
            ELSE LET first == CHOOSE i \in hits : \A j \in hits : i <= j
                 IN  /\ dret.val
                     /\ ListOf(dret.after, dret.sender)
                            = RemoveAt(dret.before[dret.sender], first)
                     /\ \A x \in DOMAIN dret.before \ {dret.sender} :
                            ListOf(dret.after, x) = dret.before[x]

\* The recorded call was made with a null receiver, a null event or after the
\* application object was destroyed.
NullPost ==
    /\ pcall.called
    /\ pcall.receiver = NullObj \/ pcall.event = 0 \/ ~pcall.instance

\* C29: postEvent with a null receiver or a null event, or with no
\* application instance, enqueues nothing: the posted-event queue is
\* unchanged and the event, if it is not null, is destroyed.
C29_NullPostIsNoOp ==
    NullPost =>
        /\ pcall.after = pcall.before
        /\ pcall.event # 0 => evs[pcall.event].deleted = 1

C29_Witness ==
    /\ pcall.called /\ pcall.instance
    /\ pcall.receiver = "o3" /\ pcall.event = 0
    /\ Len(pcall.before) = 1
    /\ \E id \in 1..Len(evs) : evs[id].receiver = NullObj /\ evs[id].deleted = 1

\* The argument list has the method's arity and each argument holds a value
\* of the parameter's type.
Fits(method, args) ==
    /\ Len(args) = Len(method.params)
    /\ \A i \in 1..Len(args) : args[i].type = method.params[i]

\* C30: an invoker called with an argument list that does not fit the
\* method, by its length or by the type of an argument, returns an empty
\* result and does not call the method.
C30_MisfitReturnsEmpty ==
    (inv.called /\ ~Fits(inv.method, inv.args)) =>
        /\ ~inv.ran
        /\ inv.result = <<EmptyAny>>
        /\ inv.exc = "none"

\* The descriptor stored last under name among the first n registrations,
\* NoMeta when there is none.
RECURSIVE LastRegistered(_, _)
LastRegistered(n, name) ==
    IF n = 0 THEN NoMeta
    ELSE IF DescriptorName(regs[n]) = name THEN regs[n]
    ELSE LastRegistered(n - 1, name)

\* C31: the registry is a last-writer-wins map under concurrent use: the
\* map holds, and findMeta returns, the descriptor registered last under a
\* name (registering it again changes nothing), and findMeta returns null
\* for a name that was never registered.
C31_LastRegistrationWins ==
    /\ \A name \in RegistryNames :
           findMeta(metaMap, name) = LastRegistered(Len(regs), name)
    /\ fret.called => fret.val = LastRegistered(fret.at, fret.name)

C31_Witness ==
    /\ regs = <<"m1", "m2", "m2">>
    /\ fret.called /\ fret.thread = "t2"
    /\ fret.name = "TestObject" /\ fret.val = "m2" /\ fret.at = 3

\* C32: the effective mode of an auto connection is decided at each
\* delivery: the slot runs inside the delivery when the sender's owning
\* thread equals the receiver's owning thread at that moment, and otherwise
\* a meta-call event is posted for the receiver and the slot does not run.
C32_AutoModePerDelivery ==
    [][em.pc = "run" =>
          \A conn \in ToSet(LoopRange(em)) :
             (EmitStepOver(conn) /\ conn.type = kAutoConnection)
             => IF EffectiveType(conn.type, owner[conn.sender] = owner[conn.receiver])
                       = kDirectConnection
                THEN log' = Append(log, conn) /\ eventQueue' = eventQueue
                ELSE /\ log' = log
                     /\ eventQueue' = postEvent(eventQueue, conn.receiver,
                                                New(MetaCallEvent(conn.slot, "none")))]_vars

\* C33: after killTimer(id) has returned the dispatcher holds no record with
\* that id and no timer event with that id is delivered, in the pump under
\* way or later, also when the record had been marked fired; the other
\* records are as they were, in the same order.
C33_KilledTimerSilent ==
    \A k \in 1..Len(kills) :
        /\ \A j \in 1..Len(timerList) : timerList[j].id # kills[k].id
        /\ \A j \in (kills[k].at + 1)..Len(tlog) : tlog[j].id # kills[k].id
        /\ kills[k].after = SelectSeq(kills[k].before, LAMBDA ti : ti.id # kills[k].id)

\* The number of TimerEvents with this id handed out among tlog[a+1..b].
DeliveredIn(id, a, b) == Cardinality({j \in (a + 1)..b : tlog[j].id = id})

\* The loop of processEvents ends with this step.
WalkEnds == walk.pc = "walk" /\ walk'.pc = "idle"

\* C37: when timerEvent handlers have killed or started timers during the
\* loop over the fired records, every other timer that was marked fired for
\* this loop and is still registered at its end has been delivered exactly
\* once in it; and the loop does end.
C37_FiredDeliveredOnce ==
    [][/\ (WalkEnds /\ walk.by # {}) =>
              \A ti \in ToSet(timerList) :
                  ti.id \in walk.fired \ walk.by
                      => DeliveredIn(ti.id, walk.from, Len(tlog)) = 1
       /\ (walk.pc # "idle" /\ walk.by # {}) => fault' # "crash"]_vars

QueuedAs(id) == [receiver |-> evs[id].receiver, event |-> [type |-> evs[id].type]]

\* C35: after removePostedEvents(receiver, type) has returned, no event that
\* was posted before the call and matches receiver and type (null and None
\* matching all) is delivered, also when the call is made while the pump is
\* dispatching; the events that do not match stay queued in their order.
C35_RemovedNeverDelivered ==
    rcall.called =>
        /\ \A j \in (rcall.at + 1)..Len(dlog) :
               dlog[j] <= rcall.upto
                   => ~RemoveMatch(QueuedAs(dlog[j]), rcall.receiver, rcall.type)
        /\ rcall.after = SelectSeq(rcall.before,
                                   LAMBDA pe : ~RemoveMatch(pe, rcall.receiver, rcall.type))

\* The object reached from o by following parent_ n times, null once null
\* has been reached.
RECURSIVE Up(_, _)
Up(o, n) ==
    IF n = 0 \/ o = NullObj THEN o ELSE Up(parent[o], n - 1)

\* C36: the parent relation is a forest: no object is its own parent or
\* ancestor, so following parent pointers from any object reaches null
\* within as many steps as there are objects.
C36_ParentsFormForest ==
    \A o \in Objects : alive[o] => Up(o, Cardinality(Objects)) = NullObj

\* C38: destroying a ThreadPool terminates: once the destructor has set
\* stop, under fair scheduling every worker leaves its loop and the joins
\* of the destructor return.
C38_DestructorTerminates == tp.stop ~> tp.main = "done"

\* C39: for every growth policy, growth size and initial size, acquire
\* either returns null, when no object is available and growing yields
\* none, or returns an object that no acquirer holds; it never takes an
\* object from an empty store.
C39_AcquireNullOrFree ==
    oret.called =>
        /\ oret.exc = "none"
        /\ ~oret.emptied
        /\ oret.val = 0 \/ (oret.val > 0 /\ oret.val \notin oret.held)

\* C40: messages accepted by sendMessage are written to the ring buffer in
\* the order they were accepted: a message whose write fails and is retried
\* never ends up behind a message that was accepted after it.
C40_WrittenInAcceptedOrder ==
    \A i, j \in 1..Len(ipc.written) :
        i < j => ipc.written[i] < ipc.written[j]

=============================================================================
